---- MODULE Spec2Model ----
(***************************************************************************)
(* RetroUIMaker: the overlay/proxy controller (DOMToggleExtension) and the *)
(* patch applier (LLMPatch.applyHtmlPatch).                                *)
(*                                                                         *)
(* The controller runs on the browser event loop: every handler runs to    *)
(* its first suspension point atomically, and the continuation after an    *)
(* awaited network generation is a step of its own.                        *)
(***************************************************************************)
EXTENDS Integers, Sequences, FiniteSets, TLC

\* ------------------------------------------------------------------ bounds
MaxRequests == 2
MaxTimers == 1
MaxOps == 2
MaxElements == 152
MaxChunkResults == 2
MaxCalls == 2
MaxRefreshTimers == 1
MaxDays == 1
MaxDrift == 1

\* ------------------------------------------------------- controller state
VARIABLES
  currentMode,      \* this.currentMode
  classList,        \* class lists of the nodes the controller toggles
  iframeSrc,        \* this.originalIframe.src
  generatedHtml,    \* this.generatedHtml
  surface,          \* this.generatedContentDiv.innerHTML
  currentIntent,    \* this.currentIntent
  urlSyncEnabled,   \* this.urlSyncEnabled
  urlCheckInterval, \* this.urlCheckInterval (TRUE: a timer is running)
  href,             \* window.location.href
  lastUrl,          \* closure variable lastUrl of enableUrlSync
  contentCache,     \* contentCache of the HTML generator
  inflight,         \* generations awaiting generatePageHTML
  requestCount,     \* number of generations sent to the network so far
  urlRegenTimers,   \* pending setTimeout(..., 1000) of regenerateContentForUrlChange
  overlapped        \* history: a request was issued while a transition was awaiting

\* ---------------------------------------------------- patch applier state
VARIABLES
  oldHtml,          \* argument oldHtml of applyHtmlPatch
  patch,            \* argument patch of applyHtmlPatch
  result,           \* value returned by applyHtmlPatch
  pc,               \* "idle" | "called" | "returned" | "raised" | "reapplied"
  patch2,           \* argument patch of a second applyHtmlPatch call, on result
  result2           \* value returned by the second call

ctlVars == <<currentMode, classList, iframeSrc, generatedHtml, surface,
             currentIntent, urlSyncEnabled, urlCheckInterval, href, lastUrl,
             contentCache, inflight, requestCount, urlRegenTimers,
             overlapped>>
patchVars == <<oldHtml, patch, result, pc, patch2, result2>>

\* ------------------------------------------------------- LLM request state
VARIABLES
  requests,         \* the makeApiRequest calls under way, by call number
  apiKey,           \* what getApiKey finds: a key, or none
  elements,         \* the pre-trimmed element array handed to the selection stage
  chunks,           \* value returned by chunkElementsArray
  chunkResults,     \* the per-chunk results handed to mergeFilteredElementChunks
  settled,          \* the chunk numbers in the order their selectElementsChunk settled
  filteredElements, \* the flat element array the selection stage produced
  selPc,            \* position of the selection stage
  createPc,         \* position of createHtmlPatchFromSelection
  createdPatch      \* what createHtmlPatchFromSelection resolved with

selVars == <<apiKey, elements, chunks, chunkResults, settled, filteredElements, selPc>>
createVars == <<createPc, createdPatch>>
llmVars == <<requests, selVars, createVars>>

\* ------------------------------------------------------ response cache state
VARIABLES
  localStorage,     \* window.localStorage: the item stored under each cache key
  now,              \* Date.now()
  lookup            \* history: the last getCacheResponse call and what it found

cacheVars == <<localStorage, now, lookup>>

\* ----------------------------------------------- surface message state
VARIABLES
  frameDocument,    \* this.originalIframe.contentDocument
  topDocument,      \* document
  handled,          \* history: the last window message and what its handler did
  refreshTimers,    \* pending setTimeout(..., 500) of refreshContent
  lastIframeUrl,    \* closure variable lastIframeUrl of setupIframeNavigation
  syncRestores,     \* pending setTimeout(..., 100) of updateMainPageUrl, by value
  historyState      \* window.history.state.iframeNavigation

messageVars == <<frameDocument, topDocument, handled, refreshTimers, lastIframeUrl,
                 syncRestores, historyState>>

\* ------------------------------------------------ materializer state
VARIABLES
  filteredDomJson,     \* the descriptors given to createCopy
  duplicatedElements,  \* the array createCopy returns
  selectorRegistry,    \* window.selectorRegistry, in the order of its entries
  srcdocElements,      \* the materialized elements inside the srcdoc iframe
  posted,              \* the last message posted to the parent frame
  copyPc               \* position: idle, called, copied, rendered

copyVars == <<filteredDomJson, duplicatedElements, selectorRegistry, srcdocElements, posted, copyPc>>

\* --------------------------------------------------- serializer state
VARIABLES
  capturedDocument,    \* the body of the cloned document
  serialized,          \* the descriptors made so far: element and selector
  resolved             \* the selectors looked up so far and what they match

selectorVars == <<capturedDocument, serialized, resolved>>
surfaceVars == <<copyVars, selectorVars>>

\* ------------------------------------------------ local filter state
VARIABLES
  fullDomJson,         \* the DOM JSON buildDomJson returned
  preTrimmedElements,  \* what preTrimDom returned, once it was called
  locallyFiltered      \* what localFilterImportantElements returned, once called

filterVars == <<fullDomJson, preTrimmedElements, locallyFiltered>>

\* ------------------------------------------------- mock generator state
VARIABLES
  mockStep,            \* the module's step counter
  mockCall,            \* the loadMockHTML call that awaits its fetch, if any
  mockResult           \* what the last completed generatePageHTML of the mock generator returned

mockVars == <<mockStep, mockCall, mockResult>>

\* ------------------------------------------------- page generator state
VARIABLES
  generatorCache,      \* contentCache of the page generator: cache key to document
  generatorCalls,      \* the generatePageHTML calls that await a promise
  pipelineRuns,        \* how often the selection pipeline was started
  llmPatchLoaded,      \* whether window.LLMPatch is defined
  generatorReturned    \* what the last completed generatePageHTML returned

generatorVars == <<generatorCache, generatorCalls, pipelineRuns, llmPatchLoaded, generatorReturned>>

\* ------------------------------------------------- polling timer state
VARIABLES
  mainIntervals,          \* the running setInterval timers of enableUrlSync
  iframeIntervals,        \* the running setInterval timers of setupIframeNavigation
  iframeUrlCheckInterval, \* whether this.iframeUrlCheckInterval holds a timer
  iframeOnload,           \* whether this.originalIframe.onload is set
  pendingLoad             \* whether a load event of the iframe is due

timerVars == <<mainIntervals, iframeIntervals, iframeUrlCheckInterval, iframeOnload, pendingLoad>>

\* ------------------------------------------------------------ popup state
VARIABLES
  popupMode,           \* currentMode of the PopupController
  popupIntent,         \* currentIntent of the PopupController
  localStore,             \* chrome.storage.local: currentMode and currentIntent
  popupCalls,          \* the setMode calls of the popup under way, oldest first
  retryTimers,         \* pending setTimeout(..., 2000) of the popup's catch block
  loading              \* whether setLoadingState(true) is in effect

popupVars == <<popupMode, popupIntent, localStore, popupCalls, retryTimers, loading>>

\* ---------------------------------------------------- page replacer state
VARIABLES
  mounted,             \* STATE.mounted
  showing,             \* STATE.showing
  stateHost,           \* STATE.host: the number of a host element, 0 for null
  hosts,               \* every host element created, in the order of creation
  replacerActive,      \* whether the root element has data-replacer-active
  mounts,              \* the host elements whose mountOverlay awaits the import
  rendererCalls        \* calls of renderSimplified since the last teardown

replacerVars == <<mounted, showing, stateHost, hosts, replacerActive, mounts, rendererCalls>>
moreVars == <<mockVars, generatorVars, timerVars, popupVars, replacerVars>>
extraVars == <<filterVars, moreVars>>
otherVars == <<cacheVars, messageVars, surfaceVars, extraVars>>
libVars == <<patchVars, llmVars, otherVars>>
vars == <<ctlVars, libVars>>

\* ------------------------------------------------------------- controller
Modes == {"normal", "side-by-side", "overlay"}
RequestedModes == Modes \cup {"bogus"}
OriginalElements == {"e1", "e2"}
Intents == {"orders", "search"}
Urls == {"u1", "u2"}
\* currentUrl.searchParams.set('_refresh', Date.now().toString())
Refreshed(url) == IF url \in Urls THEN url \o "?_refresh" ELSE url
AllUrls == Urls \cup {Refreshed(u) : u \in Urls}
Nodes == OriginalElements \cup {"generatedContentDiv", "sideBarContainer", "originalIframe", "body"}

NoContent == 0
InitialHtmlId == 100

\* getInitialHtml(): the built-in start document
getInitialHtml == InitialHtmlId

\* wrapForSideBySide(html): the html inside the wrapper's srcdoc iframe
wrapForSideBySide(html) == <<"generated-content-wrapper", html>>

EmptySurface == <<"empty", NoContent>>

AddClass(cl, nodes, c) == [n \in Nodes |-> IF n \in nodes THEN cl[n] \cup {c} ELSE cl[n]]
RemoveClass(cl, nodes, c) == [n \in Nodes |-> IF n \in nodes THEN cl[n] \ {c} ELSE cl[n]]

\* setNormalMode() that leaves the side-by-side classes of the surface and
\* the iframe in place
NormalClasses_KeepsSideBySide(cl) ==
  LET c1 == RemoveClass(cl, OriginalElements, "hidden-by-extension")
      c2 == AddClass(c1, {"generatedContentDiv"}, "hidden")
      c3 == RemoveClass(c2, {"generatedContentDiv"}, "overlay-mode")
      c4 == AddClass(c3, {"sideBarContainer"}, "hidden")
  IN  RemoveClass(c4, {"body"}, "overlay-active")

\* setNormalMode(): the class changes
NormalClasses(cl) ==
  LET c1 == RemoveClass(cl, OriginalElements, "hidden-by-extension")
      c2 == AddClass(c1, {"generatedContentDiv"}, "hidden")
      c3 == RemoveClass(RemoveClass(c2, {"generatedContentDiv"}, "side-by-side-mode"),
                        {"generatedContentDiv"}, "overlay-mode")
      c4 == AddClass(c3, {"sideBarContainer"}, "hidden")
      c5 == AddClass(c4, {"originalIframe"}, "hidden")
  IN  RemoveClass(RemoveClass(c5, {"body"}, "side-by-side-active"), {"body"}, "overlay-active")

\* setSideBySideMode(): the class changes after generateContent() has resolved
SideBySideClasses(cl) ==
  LET c1 == AddClass(cl, OriginalElements, "hidden-by-extension")
      c2 == RemoveClass(c1, {"originalIframe"}, "hidden")
      c3 == AddClass(RemoveClass(c2, {"generatedContentDiv"}, "hidden"),
                     {"generatedContentDiv"}, "side-by-side-mode")
      c4 == RemoveClass(c3, {"sideBarContainer"}, "hidden")
  IN  AddClass(c4, {"body"}, "side-by-side-active")

\* setOverlayMode(): the class changes after generateContent() has resolved
OverlayClasses(cl) ==
  LET c1 == AddClass(cl, OriginalElements, "hidden-by-extension")
      c2 == AddClass(RemoveClass(c1, {"generatedContentDiv"}, "hidden"),
                     {"generatedContentDiv"}, "overlay-mode")
  IN  AddClass(c2, {"body"}, "overlay-active")

\* markOriginalContent(), createSideBarContainer(), createOriginalIframe(),
\* createGeneratedContentDiv(): the class lists after setupExtension()
InitialClasses ==
  [n \in Nodes |-> IF n \in {"generatedContentDiv", "sideBarContainer", "originalIframe"}
                   THEN {"hidden"} ELSE {}]

Transitions == {t \in inflight : t.kind \in {"side-by-side", "overlay"}}

CtlInit ==
  /\ currentMode = "normal"
  /\ classList = InitialClasses
  /\ iframeSrc = "none"
  /\ generatedHtml = getInitialHtml
  /\ surface = EmptySurface
  /\ currentIntent = "orders"
  /\ urlSyncEnabled = FALSE
  /\ urlCheckInterval = FALSE
  /\ href = "u1"
  /\ lastUrl = "u1"
  /\ contentCache = [k \in AllUrls \X Intents |-> NoContent]
  /\ inflight = {}
  /\ requestCount = 0
  /\ urlRegenTimers = 0
  /\ overlapped = FALSE

\* ---------------------------------------------------- patch applier: HTML
\* An HTML text is either in document form, <html><head></head>nodes</html>
\* with an optional doctype in front, or a bare fragment of markup.  A parsed
\* document is the tree under the html element (the head is left out).
AttrNames == {"title", "lang"}
Absent == "#absent"
NoAttrs == [a \in AttrNames |-> Absent]
TextNode(chars) == [tag |-> "#text", id |-> "", attrs |-> NoAttrs, kids |-> <<>>, text |-> chars]
Element(tag, id, kids) == [tag |-> tag, id |-> id, attrs |-> NoAttrs, kids |-> kids, text |-> <<>>]
HtmlText(doctype, form, nodes) == [doctype |-> doctype, form |-> form, nodes |-> nodes]
EmptyString == HtmlText(FALSE, "fragment", <<>>)

RECURSIVE MergeText(_)
\* the serializer writes adjacent text nodes as one run of characters
MergeText(kids) ==
  IF kids = <<>> THEN <<>>
  ELSE LET first == kids[1]
           rest == MergeText(Tail(kids))
       IN  IF first.tag = "#text"
           THEN IF rest # <<>> /\ rest[1].tag = "#text"
                THEN <<TextNode(first.text \o rest[1].text)>> \o Tail(rest)
                ELSE <<first>> \o rest
           ELSE <<[first EXCEPT !.kids = MergeText(first.kids)]>> \o rest

HasBody(nodes) == \E i \in 1..Len(nodes) : nodes[i].tag = "body"

\* new DOMParser().parseFromString(html, 'text/html'): the parser always
\* builds html and body, and puts bare markup into the body
parseFromString(html) ==
  [doctype |-> html.doctype,
   root |-> Element("html", "",
              IF html.form = "document"
              THEN IF HasBody(html.nodes) THEN html.nodes
                   ELSE Append(html.nodes, Element("body", "", <<>>))
              ELSE <<Element("body", "", html.nodes)>>)]

\* doc.documentElement.outerHTML: the html element only, without the doctype
outerHTML(doc) == HtmlText(FALSE, "document", MergeText(doc.root.kids))

\* the nodes that assigning html to innerHTML / insertAdjacentHTML creates
FragmentNodes(html) ==
  IF html.form = "fragment" THEN html.nodes
  ELSE IF HasBody(html.nodes)
       THEN (CHOOSE n \in {html.nodes[i] : i \in 1..Len(html.nodes)} : n.tag = "body").kids
       ELSE <<>>

\* selectors: '#id', a tag name, '[title="t"]', or '[' which is not a valid
\* selector
InvalidSelector(sel) == sel = "["
Matches(node, sel) ==
  /\ node.tag # "#text"
  /\ \/ sel = "#a" /\ node.id = "a"
     \/ sel = "#b" /\ node.id = "b"
     \/ sel = node.tag
     \/ sel = "[title=t]" /\ node.attrs["title"] = "t"

NotFound == <<0>>
RECURSIVE Find(_, _)
RECURSIVE FindKids(_, _, _)
\* path (child indexes) of the first node in document order that matches
Find(node, sel) ==
  IF Matches(node, sel) THEN <<>> ELSE FindKids(node.kids, 1, sel)
FindKids(kids, i, sel) ==
  IF i > Len(kids) THEN NotFound
  ELSE LET p == Find(kids[i], sel)
       IN  IF p # NotFound THEN <<i>> \o p ELSE FindKids(kids, i + 1, sel)

\* doc.querySelector(selector): NotFound stands for null
querySelector(doc, sel) == Find(doc.root, sel)

RECURSIVE GetAt(_, _)
GetAt(node, path) == IF path = <<>> THEN node ELSE GetAt(node.kids[path[1]], Tail(path))
RECURSIVE SetAt(_, _, _)
SetAt(node, path, new) ==
  IF path = <<>> THEN new
  ELSE [node EXCEPT !.kids[path[1]] = SetAt(node.kids[path[1]], Tail(path), new)]
RemoveIndex(seq, i) == SubSeq(seq, 1, i - 1) \o SubSeq(seq, i + 1, Len(seq))
RECURSIVE RemoveAt(_, _)
RemoveAt(node, path) ==
  IF Len(path) = 1 THEN [node EXCEPT !.kids = RemoveIndex(node.kids, path[1])]
  ELSE [node EXCEPT !.kids[path[1]] = RemoveAt(node.kids[path[1]], Tail(path))]

Update(doc, path, new) == [doc EXCEPT !.root = SetAt(doc.root, path, new)]

\* ---------------------------------------------- patch applier: operations
Operation(op, selector, html, attribute, value) ==
  [op |-> op, selector |-> selector, html |-> html, attribute |-> attribute, value |-> value]
SelectorOps == {"replace", "append", "prepend", "remove", "setAttribute", "removeAttribute"}

\* Element.setAttribute(name, value)
setAttribute(el, name, value) == [el EXCEPT !.attrs[name] = value]

\* removeAttribute leaving the attribute in place with an empty value
removeAttribute_Empties(el, name) == [el EXCEPT !.attrs[name] = ""]

\* Element.removeAttribute(name)
removeAttribute(el, name) == [el EXCEPT !.attrs[name] = Absent]

\* the body of the try block of applyOperation; threw: querySelector raised
\* a SyntaxError before anything was changed
OperationBody(doc, operation) ==
  IF operation.op \notin SelectorOps THEN [threw |-> FALSE, doc |-> doc]
  ELSE IF InvalidSelector(operation.selector) THEN [threw |-> TRUE, doc |-> doc]
  ELSE
    LET path == querySelector(doc, operation.selector)
        el == GetAt(doc.root, path)
        new == CASE operation.op = "replace" ->
                      Update(doc, path, [el EXCEPT !.kids = FragmentNodes(operation.html)])
                 [] operation.op = "append" ->
                      Update(doc, path, [el EXCEPT !.kids = el.kids \o FragmentNodes(operation.html)])
                 [] operation.op = "prepend" ->
                      Update(doc, path, [el EXCEPT !.kids = FragmentNodes(operation.html) \o el.kids])
                 [] operation.op = "remove" ->
                      [doc EXCEPT !.root = RemoveAt(doc.root, path)]
                 [] operation.op = "setAttribute" ->
                      Update(doc, path, setAttribute(el, operation.attribute, operation.value))
                 [] operation.op = "removeAttribute" ->
                      Update(doc, path, removeAttribute(el, operation.attribute))
    IN  [threw |-> FALSE, doc |-> IF path = NotFound THEN doc ELSE new]

\* applyOperation without its try/catch: the exception reaches the caller
applyOperation_Rethrows(doc, operation) == OperationBody(doc, operation)

\* applyOperation(doc, operation): an exception is logged and swallowed
applyOperation(doc, operation) ==
  [threw |-> FALSE, doc |-> OperationBody(doc, operation).doc]

RECURSIVE ApplyOperations_StopsAtMissing(_, _)
\* the loop leaving at the first operation whose target is missing
ApplyOperations_StopsAtMissing(doc, operations) ==
  IF operations = <<>> THEN [threw |-> FALSE, doc |-> doc]
  ELSE LET r == applyOperation(doc, Head(operations))
           missing == /\ Head(operations).op \in SelectorOps
                      /\ ~InvalidSelector(Head(operations).selector)
                      /\ querySelector(doc, Head(operations).selector) = NotFound
       IN  IF r.threw \/ missing THEN r ELSE ApplyOperations_StopsAtMissing(r.doc, Tail(operations))

RECURSIVE ApplyOperations(_, _)
\* for (const operation of patch.operations) this.applyOperation(doc, operation)
ApplyOperations(doc, operations) ==
  IF operations = <<>> THEN [threw |-> FALSE, doc |-> doc]
  ELSE LET r == applyOperation(doc, Head(operations))
       IN  IF r.threw THEN r ELSE ApplyOperations(r.doc, Tail(operations))

\* operation.op === 'replaceFullDocument' && operation.html
IsFullReplace(operation) == operation.op = "replaceFullDocument" /\ operation.html # EmptyString
FullReplaces(operations) == {i \in 1..Len(operations) : IsFullReplace(operations[i])}
Min(S) == CHOOSE i \in S : \A j \in S : i <= j

\* the try block of applyHtmlPatch; threw: an exception left the block
PatchBody(html, p) ==
  IF ~p.iterable THEN [threw |-> TRUE, html |-> html]
  ELSE IF FullReplaces(p.operations) # {}
       THEN [threw |-> FALSE, html |-> p.operations[Min(FullReplaces(p.operations))].html]
       ELSE LET r == ApplyOperations(parseFromString(html), p.operations)
            IN  [threw |-> r.threw, html |-> outerHTML(r.doc)]

\* applyHtmlPatch without its catch
applyHtmlPatch_NoCatch(html, p) == PatchBody(html, p)

\* applyHtmlPatch(oldHtml, patch): catch returns oldHtml
applyHtmlPatch(html, p) ==
  LET r == PatchBody(html, p)
  IN  IF r.threw THEN [threw |-> FALSE, html |-> html] ELSE r

\* --------------------------------------------------- patch applier: inputs
TextA == TextNode(<<"A">>)
TextB == TextNode(<<"B">>)
DivA == Element("div", "a", <<TextA>>)
DivB == Element("div", "b", <<TextA>>)
Body(kids) == Element("body", "", kids)
FragB == HtmlText(FALSE, "fragment", <<TextB>>)
FragElB == HtmlText(FALSE, "fragment", <<Element("i", "b", <<>>)>>)
NewDocument == HtmlText(TRUE, "document", <<Body(<<Element("p", "", <<TextB>>)>>)>>)

OldHtmls ==
  { HtmlText(FALSE, "document", <<Body(<<DivB>>)>>),
    HtmlText(TRUE, "document", <<Body(<<DivA, DivB>>)>>),
    HtmlText(TRUE, "document", <<Body(<<Element("div", "a", <<DivB>>)>>)>>),
    HtmlText(FALSE, "fragment", <<DivA>>),
    EmptyString }

Operations ==
  {Operation("replace", sel, FragB, "", "") : sel \in {"#a", "#b", "["}}
  \cup {Operation("replace", "#a", FragElB, "", "")}
  \cup {Operation("append", "#a", FragB, "", ""), Operation("append", "#b", FragB, "", ""),
        Operation("append", "#a", FragElB, "", "")}
  \cup {Operation("prepend", "#a", FragB, "", ""), Operation("prepend", "#b", FragElB, "", "")}
  \cup {Operation("remove", sel, EmptyString, "", "") : sel \in {"#a", "#b", "["}}
  \cup {Operation("setAttribute", sel, EmptyString, "title", "v") : sel \in {"#a", "#b"}}
  \cup {Operation("removeAttribute", sel, EmptyString, "title", "") : sel \in {"#a", "#b"}}
  \cup {Operation("replaceFullDocument", "", NewDocument, "", ""),
        Operation("replaceFullDocument", "", EmptyString, "", "")}
  \cup {Operation("move", "#a", EmptyString, "", "")}

RECURSIVE SeqsUpTo(_, _)
SeqsUpTo(S, n) ==
  IF n = 0 THEN {<<>>}
  ELSE LET shorter == SeqsUpTo(S, n - 1)
       IN  shorter \cup {Append(q, x) : q \in {r \in shorter : Len(r) = n - 1}, x \in S}

WithOperations(ops) == [iterable |-> TRUE, operations |-> ops]

\* a patch whose operations is an array, and one whose operations is missing
Patches ==
  {[iterable |-> TRUE, operations |-> ops] : ops \in SeqsUpTo(Operations, MaxOps)}
  \cup {[iterable |-> FALSE, operations |-> <<>>]}

\* no applyHtmlPatch call is under way
PatchIdle ==
  /\ oldHtml = EmptyString
  /\ patch = [iterable |-> TRUE, operations |-> <<>>]
  /\ result = EmptyString
  /\ pc = "idle"
  /\ patch2 = [iterable |-> TRUE, operations |-> <<>>]
  /\ result2 = EmptyString

\* the JavaScript value undefined
Undefined == [type |-> "undefined"]

\* no makeApiRequest call is under way
SelIdle ==
  /\ apiKey = "sk-key"
  /\ elements = <<>>
  /\ chunks = <<>>
  /\ chunkResults = <<>>
  /\ settled = <<>>
  /\ filteredElements = <<>>
  /\ selPc = "idle"
CreateIdle == createPc = "idle" /\ createdPatch = Undefined
LlmIdle == requests = <<>> /\ SelIdle /\ CreateIdle

\* the cache is empty and no lookup was made
NoLookup == [made |-> FALSE]
CacheIdle == localStorage = <<>> /\ now = 1 /\ lookup = NoLookup
\* this.originalIframe.contentDocument is null when the frame's document
\* cannot be reached
NoDocument == [doctype |-> FALSE, root |-> TextNode(<<>>)]
Page(kids) == parseFromString(HtmlText(TRUE, "document", <<Body(kids)>>))
NotHandled == [made |-> FALSE]

MessageIdle ==
  /\ frameDocument = NoDocument
  /\ topDocument = Page(<<>>)
  /\ handled = NotHandled
  /\ refreshTimers = 0
  /\ lastIframeUrl = "null"
  /\ syncRestores = {}
  /\ historyState = FALSE

\* nothing was materialized and nothing was posted
NotPosted == [made |-> FALSE]
CopyIdle ==
  /\ filteredDomJson = <<>>
  /\ duplicatedElements = <<>>
  /\ selectorRegistry = <<>>
  /\ srcdocElements = <<>>
  /\ posted = NotPosted
  /\ copyPc = "idle"

\* An element of the captured document: children holds its element children
\* in document order. The root of a document is its body; its parent, the
\* html element, has the children head and body.
DomElement(tagName, id, classes, role, children) ==
  [tagName |-> tagName, id |-> id, classes |-> classes, role |-> role, children |-> children]
Leaf(tagName, id) == DomElement(tagName, id, <<>>, "", <<>>)

PlainBody(children) == DomElement("body", "", <<>>, "", children)
\* nothing was serialized
SelectorIdle ==
  /\ capturedDocument = PlainBody(<<>>)
  /\ serialized = {}
  /\ resolved = {}

SurfaceIdle == CopyIdle /\ SelectorIdle

\* neither local filter was called
NotTrimmed == [done |-> FALSE]
NotFiltered == [done |-> FALSE]
FilterIdle ==
  /\ fullDomJson = [tag |-> "html", children |-> <<>>]
  /\ preTrimmedElements = NotTrimmed
  /\ locallyFiltered = NotFiltered

\* the mock generator is loaded and was not called
NoMockCall == [pc |-> "idle"]
NoMockResult == [kind |-> "none"]
MockIdle ==
  /\ mockStep = 1
  /\ mockCall = NoMockCall
  /\ mockResult = NoMockResult

\* the page generator is loaded, its cache is empty and it was not called
PageIntents == {"orders", ""}
CacheKeys == {<<u, i>> : u \in {"u1", "u2"}, i \in {"orders", "default"}}
NotCached == "#absent"
NothingReturned == [kind |-> "none"]
GeneratorIdle ==
  /\ generatorCache = [k \in CacheKeys |-> NotCached]
  /\ generatorCalls = {}
  /\ pipelineRuns = 0
  /\ llmPatchLoaded = FALSE
  /\ generatorReturned = NothingReturned

\* no polling timer was started and the iframe has no load handler
TimerIdle ==
  /\ mainIntervals = 0
  /\ iframeIntervals = 0
  /\ iframeUrlCheckInterval = FALSE
  /\ iframeOnload = FALSE
  /\ pendingLoad = FALSE

\* the popup was constructed and nothing was stored
Unset == "#unset"
PopupIdle ==
  /\ popupMode = "normal"
  /\ popupIntent = "orders"
  /\ localStore = [currentMode |-> Unset, currentIntent |-> Unset]
  /\ popupCalls = <<>>
  /\ retryTimers = 0
  /\ loading = FALSE

\* the content script of the page replacer has run and nothing was mounted
ReplacerIdle ==
  /\ mounted = FALSE
  /\ showing = FALSE
  /\ stateHost = 0
  /\ hosts = <<>>
  /\ replacerActive = FALSE
  /\ mounts = {}
  /\ rendererCalls = 0
MoreIdle == MockIdle /\ GeneratorIdle /\ TimerIdle /\ PopupIdle /\ ReplacerIdle
ExtraIdle == FilterIdle /\ MoreIdle

OtherIdle == CacheIdle /\ MessageIdle /\ SurfaceIdle /\ ExtraIdle

Init == CtlInit /\ PatchIdle /\ LlmIdle /\ OtherIdle

\* ------------------------------------------------- controller: operations
\* The part of the page state that the mode functions change.
Dom == [cl |-> classList, src |-> iframeSrc, sync |-> urlSyncEnabled,
        timer |-> urlCheckInterval, last |-> lastUrl]

\* disableUrlSync()
disableUrlSync(d) ==
  IF ~d.sync THEN d ELSE [d EXCEPT !.sync = FALSE, !.timer = FALSE]

\* enableUrlSync(): a new closure lastUrl and a new interval timer
enableUrlSync(d) ==
  IF d.sync THEN d ELSE [d EXCEPT !.sync = TRUE, !.last = href, !.timer = TRUE]

\* syncIframeUrl()
syncIframeUrl(d) == enableUrlSync([d EXCEPT !.src = href])

\* setNormalMode() without the assignment to currentMode
setNormalMode(d) == disableUrlSync([d EXCEPT !.cl = NormalClasses(d.cl)])

\* the statements of setSideBySideMode() / setOverlayMode() that follow
\* `await this.generateContent()`
EntryEffects(kind, d) ==
  CASE kind = "side-by-side" ->
         LET d1 == [d EXCEPT !.cl = AddClass(d.cl, OriginalElements, "hidden-by-extension")]
             d2 == syncIframeUrl(d1)
         IN  [d2 EXCEPT !.cl = SideBySideClasses(d2.cl)]
    [] kind = "overlay" -> [d EXCEPT !.cl = OverlayClasses(d.cl)]
    [] OTHER -> d

SetDom(d) ==
  /\ classList' = d.cl
  /\ iframeSrc' = d.src
  /\ urlSyncEnabled' = d.sync
  /\ urlCheckInterval' = d.timer
  /\ lastUrl' = d.last

\* generatePageHTML(): cacheKey = `${window.location.href}_${intent}`
CacheKey(intent) == <<href, intent>>

\* generateContent() called after the original elements were hidden
StartGeneration_HidesFirst(kind, intent, d) ==
  LET key == CacheKey(intent)
      token == requestCount + 1
      hidden == IF kind \in {"side-by-side", "overlay"}
                THEN [d EXCEPT !.cl = AddClass(d.cl, OriginalElements, "hidden-by-extension")]
                ELSE d
  IN  IF contentCache[key] # NoContent
      THEN /\ generatedHtml' = contentCache[key]
           /\ surface' = wrapForSideBySide(contentCache[key])
           /\ SetDom(EntryEffects(kind, d))
           /\ UNCHANGED <<inflight, contentCache, requestCount>>
      ELSE /\ requestCount < MaxRequests
           /\ requestCount' = token
           /\ inflight' = inflight \cup {[token |-> token, kind |-> kind, key |-> key]}
           /\ SetDom(hidden)
           /\ UNCHANGED <<generatedHtml, surface, contentCache>>

\* generateContent() / regenerateContent() up to the await of generatePageHTML,
\* called from a handler of the given kind with the page state d.  A cached
\* document is returned without a network round trip, so the caller's
\* continuation runs before any other handler.
StartGeneration(kind, intent, d) ==
  LET key == CacheKey(intent)
      token == requestCount + 1
  IN  IF contentCache[key] # NoContent
      THEN /\ generatedHtml' = contentCache[key]
           /\ surface' = wrapForSideBySide(contentCache[key])
           /\ SetDom(EntryEffects(kind, d))
           /\ UNCHANGED <<inflight, contentCache, requestCount>>
      ELSE /\ requestCount < MaxRequests
           /\ requestCount' = token
           /\ inflight' = inflight \cup {[token |-> token, kind |-> kind, key |-> key]}
           /\ SetDom(d)
           /\ UNCHANGED <<generatedHtml, surface, contentCache>>

\* setMode(mode) past its guard: reset to normal, then enter the mode
SwitchMode(mode, intent) ==
  /\ overlapped' = (overlapped \/ Transitions # {})
  /\ IF mode \in {"side-by-side", "overlay"}
     THEN /\ currentMode' = mode
          /\ StartGeneration(mode, intent, setNormalMode(Dom))
     ELSE /\ currentMode' = "normal"
          /\ SetDom(setNormalMode(setNormalMode(Dom)))
          /\ UNCHANGED <<generatedHtml, surface, contentCache, inflight, requestCount>>

\* setMode(mode) without the guard against the current mode
SetModeRequest_NoGuard(mode, intent) ==
  LET newIntent == IF intent # "undefined" THEN intent ELSE currentIntent
  IN  /\ currentIntent' = newIntent
      /\ SwitchMode(mode, newIntent)
      /\ UNCHANGED <<href, urlRegenTimers, libVars>>

\* setMode(mode) as called by the runtime message listener, which first
\* stores request.intent when the message carries one
listenerSetMode(mode, intent) ==
  LET newIntent == IF intent # "undefined" THEN intent ELSE currentIntent
  IN  /\ currentIntent' = newIntent
      /\ IF currentMode = mode
         THEN UNCHANGED <<currentMode, classList, iframeSrc, generatedHtml, surface,
                          urlSyncEnabled, urlCheckInterval, lastUrl, contentCache,
                          inflight, requestCount, overlapped>>
         ELSE SwitchMode(mode, newIntent)
      /\ UNCHANGED <<href, urlRegenTimers>>

\* the 'setMode' message while nothing else of the page takes a step
SetModeRequest(mode, intent) ==
  /\ listenerSetMode(mode, intent)
  /\ UNCHANGED libVars

\* listener: 'setIntent' -> setIntent(intent)
SetIntentRequest(intent) ==
  /\ intent # currentIntent
  /\ currentIntent' = intent
  /\ UNCHANGED <<currentMode, classList, iframeSrc, generatedHtml, surface,
                 urlSyncEnabled, urlCheckInterval, href, lastUrl, contentCache, inflight,
                 requestCount, urlRegenTimers, overlapped, libVars>>

\* listener: 'regenerateContent' -> generateContent()
RegenerateRequest ==
  /\ StartGeneration("regenerate", currentIntent, Dom)
  /\ UNCHANGED <<currentMode, currentIntent, href, urlRegenTimers, overlapped, libVars>>

\* generatePageHTML resolves for the generation t: the document is cached,
\* stored and written to the surface, then the awaiting mode function goes on
generationResolves(t) ==
  /\ t \in inflight
  /\ inflight' = inflight \ {t}
  /\ contentCache' = [contentCache EXCEPT ![t.key] = t.token]
  /\ generatedHtml' = t.token
  /\ surface' = wrapForSideBySide(t.token)
  /\ SetDom(EntryEffects(t.kind, Dom))
  /\ UNCHANGED <<currentMode, currentIntent, href, requestCount, urlRegenTimers, overlapped>>

\* the resolution while nothing else of the page takes a step
CompleteGeneration(t) ==
  /\ generationResolves(t)
  /\ UNCHANGED libVars

\* some awaited generatePageHTML resolves
CompleteSomeGeneration == \E t \in inflight : CompleteGeneration(t)

\* the page changes its own address (history API, navigation inside the page)
PageNavigates(u) ==
  /\ u # href
  /\ href' = u
  /\ UNCHANGED <<currentMode, classList, iframeSrc, generatedHtml, surface, currentIntent,
                 urlSyncEnabled, urlCheckInterval, lastUrl, contentCache, inflight,
                 requestCount, urlRegenTimers, overlapped, libVars>>

\* the setInterval callback of enableUrlSync -> handleMainPageUrlChange()
\* -> regenerateContentForUrlChange() up to its setTimeout
UrlCheckTick ==
  LET visible == "hidden" \notin classList["originalIframe"]
      regen == /\ visible
               /\ currentMode # "normal"
               /\ "hidden" \notin classList["generatedContentDiv"]
  IN  /\ urlCheckInterval
      /\ href # lastUrl
      /\ lastUrl' = href
      /\ iframeSrc' = IF visible THEN href ELSE iframeSrc
      /\ regen => urlRegenTimers < MaxTimers
      /\ urlRegenTimers' = IF regen THEN urlRegenTimers + 1 ELSE urlRegenTimers
      /\ UNCHANGED <<currentMode, classList, generatedHtml, surface, currentIntent,
                     urlSyncEnabled, urlCheckInterval, href, contentCache, inflight,
                     requestCount, overlapped, libVars>>

\* the setTimeout callback of regenerateContentForUrlChange()
UrlRegenTimerFires ==
  /\ urlRegenTimers > 0
  /\ urlRegenTimers' = urlRegenTimers - 1
  /\ StartGeneration("url-change", currentIntent, Dom)
  /\ UNCHANGED <<currentMode, currentIntent, href, overlapped, libVars>>

Next ==
  \/ \E i \in Intents : SetIntentRequest(i)
  \/ \E m \in RequestedModes, i \in Intents \cup {"undefined"} : SetModeRequest(m, i)
  \/ RegenerateRequest
  \/ CompleteSomeGeneration
  \/ \E u \in Urls : PageNavigates(u)
  \/ UrlCheckTick
  \/ UrlRegenTimerFires

Spec == Init /\ [][Next]_vars

\* the controller while the user leaves the intent alone
NextFixedIntent ==
  \/ \E m \in RequestedModes : SetModeRequest(m, "undefined")
  \/ RegenerateRequest
  \/ CompleteSomeGeneration
  \/ \E u \in Urls : PageNavigates(u)
  \/ UrlCheckTick
  \/ UrlRegenTimerFires

SpecFixedIntent == Init /\ [][NextFixedIntent]_vars

\* ------------------------------------- controller: messages from the surface
FrameDocuments == {NoDocument, Page(<<DivB, DivA>>), Page(<<DivB>>)}
TopDocuments == {Page(<<DivA, DivB>>), Page(<<DivB>>), Page(<<>>)}
MessageSelectors == {"#a", "div", "["}
MessageTypes == {"CLICK_ELEMENT", "CHANGE_ELEMENT"}
NoValue == "#undefined"

\* what was done to an element: element.click(), or element.value = value
\* followed by the change and input events
Applied(document, path, type, value) ==
  [document |-> document, path |-> path, type |-> type, value |-> value]

\* `const mainElement = document.querySelector(selector); if (mainElement) ...`
InMainDocument(top, selector, type, value) ==
  LET mainElement == querySelector(top, selector)
  IN  IF mainElement = NotFound THEN {} ELSE {Applied("top", mainElement, type, value)}

\* the lookup with the top-level document asked first
ElementAction_MainFirst(frame, top, selector, type, value) ==
  IF InvalidSelector(selector) THEN [threw |-> TRUE, applied |-> {}]
  ELSE LET inMain == InMainDocument(top, selector, type, value)
           element == IF frame = NoDocument THEN NotFound ELSE querySelector(frame, selector)
       IN  [threw |-> FALSE,
            applied |-> IF inMain # {} \/ element = NotFound THEN inMain
                        ELSE {Applied("iframe", element, type, value)}]

\* the try block that clickElement and changeElement share; threw: querySelector
\* raised a SyntaxError
ElementAction(frame, top, selector, type, value) ==
  IF InvalidSelector(selector) THEN [threw |-> TRUE, applied |-> {}]
  ELSE IF frame # NoDocument
  THEN LET element == querySelector(frame, selector)
       IN  [threw |-> FALSE,
            applied |-> IF element # NotFound
                        THEN {Applied("iframe", element, type, value)}
                        ELSE InMainDocument(top, selector, type, value)]
  ELSE [threw |-> FALSE, applied |-> InMainDocument(top, selector, type, value)]

\* clickElement(selector) / changeElement(selector, value): the catch block
\* logs the error and returns
clickElement(frame, top, selector) ==
  [ElementAction(frame, top, selector, "CLICK_ELEMENT", NoValue) EXCEPT !.threw = FALSE]
changeElement(frame, top, selector, value) ==
  [ElementAction(frame, top, selector, "CHANGE_ELEMENT", value) EXCEPT !.threw = FALSE]


\* the iframe has loaded an address that its navigation monitor has not
\* dealt with
NavigationPending ==
  /\ iframeSrc # "none"
  /\ iframeSrc # lastIframeUrl
  /\ iframeSrc # href
\* nothing is under way that ends in a regeneration
Quiet ==
  /\ inflight = {}
  /\ urlRegenTimers = 0
  /\ refreshTimers = 0
  /\ ~NavigationPending
  /\ ~(urlCheckInterval /\ href # lastUrl)

MessageInit ==
  /\ CtlInit
  /\ PatchIdle
  /\ LlmIdle
  /\ CacheIdle
  /\ SurfaceIdle
  /\ ExtraIdle
  /\ frameDocument \in FrameDocuments
  /\ topDocument \in TopDocuments
  /\ handled = NotHandled
  /\ refreshTimers = 0
  /\ lastIframeUrl = "null"
  /\ syncRestores = {}
  /\ historyState = FALSE

\* the popup asks for a mode before the generated page is in use
ModeChosen ==
  /\ handled = NotHandled
  /\ \E m \in Modes : SetModeRequest(m, "undefined")

\* window 'message' listener: clickElement or changeElement, then
\* refreshContent() up to its setTimeout
MessageArrives ==
  /\ refreshTimers < MaxRefreshTimers
  /\ \E type \in MessageTypes, selector \in MessageSelectors :
       LET value == IF type = "CHANGE_ELEMENT" THEN "v" ELSE NoValue
           done == IF type = "CLICK_ELEMENT"
                   THEN clickElement(frameDocument, topDocument, selector)
                   ELSE changeElement(frameDocument, topDocument, selector, value)
       IN  handled' = [made |-> TRUE, type |-> type, selector |-> selector, value |-> value,
                       applied |-> done.applied, threw |-> done.threw,
                       before |-> [mode |-> currentMode, intent |-> currentIntent,
                                   html |-> generatedHtml, quiet |-> Quiet]]
  /\ refreshTimers' = refreshTimers + 1
  /\ UNCHANGED <<ctlVars, patchVars, llmVars, cacheVars, surfaceVars, extraVars, frameDocument, topDocument,
                 lastIframeUrl, syncRestores, historyState>>

\* the setTimeout callback of refreshContent()
RefreshTimerFires ==
  /\ refreshTimers > 0
  /\ refreshTimers' = refreshTimers - 1
  /\ iframeSrc' = IF "hidden" \notin classList["originalIframe"]
                  THEN Refreshed(href) ELSE iframeSrc
  /\ UNCHANGED <<currentMode, classList, generatedHtml, surface, currentIntent,
                 urlSyncEnabled, urlCheckInterval, href, lastUrl, contentCache, inflight,
                 requestCount, urlRegenTimers, overlapped, patchVars, llmVars, cacheVars, surfaceVars, extraVars,
                 frameDocument, topDocument, handled, lastIframeUrl, syncRestores,
                 historyState>>

\* the load listener or the interval of setupIframeNavigation() sees the
\* iframe at a new address -> updateMainPageUrl(newUrl) ->
\* regenerateContentForUrlChange() up to its setTimeout
IframeNavigationSeen ==
  LET regen == /\ currentMode # "normal"
               /\ "hidden" \notin classList["generatedContentDiv"]
  IN  /\ NavigationPending
      /\ regen => urlRegenTimers < MaxTimers
      /\ lastIframeUrl' = iframeSrc
      /\ syncRestores' = syncRestores \cup {urlSyncEnabled}
      /\ urlSyncEnabled' = FALSE
      /\ href' = iframeSrc
      /\ historyState' = TRUE
      /\ urlRegenTimers' = IF regen THEN urlRegenTimers + 1 ELSE urlRegenTimers
      /\ UNCHANGED <<currentMode, classList, iframeSrc, generatedHtml, surface, currentIntent,
                     urlCheckInterval, lastUrl, contentCache, inflight, requestCount,
                     overlapped, patchVars, llmVars, cacheVars, surfaceVars, extraVars, frameDocument, topDocument,
                     handled, refreshTimers>>

\* the setTimeout callback of updateMainPageUrl(): urlSyncEnabled is put back
SyncRestoreFires ==
  /\ \E wasUrlSyncEnabled \in syncRestores :
       /\ urlSyncEnabled' = wasUrlSyncEnabled
       /\ syncRestores' = syncRestores \ {wasUrlSyncEnabled}
  /\ UNCHANGED <<currentMode, classList, iframeSrc, generatedHtml, surface, currentIntent,
                 urlCheckInterval, href, lastUrl, contentCache, inflight, requestCount,
                 urlRegenTimers, overlapped, patchVars, llmVars, cacheVars, surfaceVars, extraVars, frameDocument,
                 topDocument, handled, refreshTimers, lastIframeUrl, historyState>>

\* the setInterval callback of enableUrlSync when the address was pushed by
\* updateMainPageUrl: handleMainPageUrlChange() returns at the test of
\* history.state.iframeNavigation, or before it with the iframe hidden
PushedUrlCheckTick ==
  /\ urlCheckInterval
  /\ href # lastUrl
  /\ historyState
  /\ lastUrl' = href
  /\ UNCHANGED <<currentMode, classList, iframeSrc, generatedHtml, surface, currentIntent,
                 urlSyncEnabled, urlCheckInterval, href, contentCache, inflight, requestCount,
                 urlRegenTimers, overlapped, libVars>>

MessageNext ==
  \/ ModeChosen
  \/ CompleteSomeGeneration
  \/ MessageArrives
  \/ RefreshTimerFires
  \/ IframeNavigationSeen
  \/ SyncRestoreFires
  \/ PushedUrlCheckTick
  \/ UrlRegenTimerFires

SpecMessage == MessageInit /\ [][MessageNext]_vars

\* what a window message carries that is not one of the two surface messages:
\* data of another type, data without a type, or no data (null)
OtherData == {[type |-> "UPDATE_BUTTON_CONFIG"], [type |-> "undefined"], [type |-> "#nodata"]}

\* window 'message' listener for such a message: reading event.data.type of
\* null raises a TypeError that ends the listener; otherwise neither branch
\* is taken and refreshContent() runs up to its setTimeout
OtherMessageArrives ==
  /\ refreshTimers < MaxRefreshTimers
  /\ \E data \in OtherData :
       LET raised == data.type = "#nodata"
       IN  /\ handled' = [made |-> TRUE, type |-> data.type, selector |-> "", value |-> NoValue,
                          applied |-> {}, threw |-> raised,
                          before |-> [mode |-> currentMode, intent |-> currentIntent,
                                      html |-> generatedHtml, quiet |-> Quiet]]
           /\ refreshTimers' = IF raised THEN refreshTimers ELSE refreshTimers + 1
  /\ UNCHANGED <<ctlVars, patchVars, llmVars, cacheVars, surfaceVars, extraVars, frameDocument, topDocument,
                 lastIframeUrl, syncRestores, historyState>>

AnyMessageNext == MessageNext \/ OtherMessageArrives

SpecAnyMessage == MessageInit /\ [][AnyMessageNext]_vars

\* ------------------------------------------- patch applier: specification
\* applyHtmlPatch is called with any of the documents and patches
PatchInit ==
  /\ CtlInit
  /\ OtherIdle
  /\ oldHtml \in OldHtmls
  /\ patch \in Patches
  /\ result = EmptyString
  /\ pc = "called"
  /\ patch2 = [iterable |-> TRUE, operations |-> <<>>]
  /\ result2 = EmptyString
  /\ LlmIdle

\* applyHtmlPatch(oldHtml, patch) runs and returns, or raises
ApplyHtmlPatchCall ==
  /\ pc = "called"
  /\ LET r == applyHtmlPatch(oldHtml, patch)
     IN  /\ result' = r.html
         /\ pc' = IF r.threw THEN "raised" ELSE "returned"
  /\ UNCHANGED <<oldHtml, patch, patch2, result2, ctlVars, llmVars, otherVars>>

SpecPatch == PatchInit /\ [][ApplyHtmlPatchCall]_vars

\* ------------------------------ patch applier: two calls one after the other
Titled(el, value) == setAttribute(el, "title", value)
TwiceHtmls ==
  { HtmlText(TRUE, "document", <<Body(<<DivA, DivB>>)>>),
    HtmlText(FALSE, "document", <<Body(<<Titled(DivA, "t"), DivB>>)>>),
    HtmlText(FALSE, "document", <<Body(<<Titled(DivA, "t"), Titled(DivB, "t")>>)>>),
    HtmlText(FALSE, "document", <<Body(<<Element("div", "a", <<DivB>>)>>)>>) }

TwiceSelectors == {"#a", "#b", "div", "[title=t]"}
TwiceOperations ==
  {Operation("setAttribute", sel, EmptyString, "title", "v") : sel \in TwiceSelectors}
  \cup {Operation("removeAttribute", sel, EmptyString, "title", "") : sel \in TwiceSelectors}
  \cup {Operation("remove", sel, EmptyString, "", "") : sel \in {"#a", "div"}}
  \cup {Operation("append", "#a", FragB, "", "")}
TwicePatches == {WithOperations(ops) : ops \in SeqsUpTo(TwiceOperations, MaxOps)}
SingleOperationPatches == {WithOperations(<<o>>) : o \in TwiceOperations}

TwiceInit ==
  /\ CtlInit
  /\ OtherIdle
  /\ oldHtml \in TwiceHtmls
  /\ patch \in TwicePatches
  /\ result = EmptyString
  /\ pc = "called"
  /\ patch2 = [iterable |-> TRUE, operations |-> <<>>]
  /\ result2 = EmptyString
  /\ LlmIdle

\* a second applyHtmlPatch call, on the html the first call returned: with
\* the same patch again, or with a patch of one operation
ApplyHtmlPatchAgain ==
  /\ pc = "returned"
  /\ \E p2 \in {patch} \cup SingleOperationPatches :
       /\ patch2' = p2
       /\ result2' = applyHtmlPatch(result, p2).html
  /\ pc' = "reapplied"
  /\ UNCHANGED <<oldHtml, patch, result, ctlVars, llmVars, otherVars>>

SpecPatchTwice == TwiceInit /\ [][ApplyHtmlPatchCall \/ ApplyHtmlPatchAgain]_vars

\* ------------------------------------------------ LLM client: makeApiRequest
maxRetries == 3
baseDelay == 1000
RECURSIVE Pow2(_)
Pow2(n) == IF n = 0 THEN 1 ELSE 2 * Pow2(n - 1)

\* response.headers.get('retry-after'): null, or the header's text
NoHeader == "#null"
RetryAfterHeaders == {NoHeader, "0", "2"}
parseInt(text) == CASE text = "0" -> 0 [] text = "2" -> 2

\* what one fetch can do: resolve with a status, or throw
Http(status, retryAfter, body) == [status |-> status, retryAfter |-> retryAfter, body |-> body]
NetworkError == Http(0, NoHeader, Undefined)

\* const delay = retryAfter ? parseInt(retryAfter) * 30000 : baseDelay * Math.pow(2, attempt)
RateLimitDelay(retryAfter, attempt) ==
  IF retryAfter # NoHeader THEN parseInt(retryAfter) * 30000 ELSE baseDelay * Pow2(attempt)

\* const delay = baseDelay * Math.pow(2, attempt), in the catch block
FailureDelay(attempt) == baseDelay * Pow2(attempt)

\* one makeApiRequest call: the loop variable, what each fetch did and the
\* wait that followed it, and how the call ended
NewRequest(prompt, bodies, faults) ==
  [prompt |-> prompt, bodies |-> bodies, faults |-> faults, pc |-> "called", attempt |-> 0,
   log |-> <<>>, response |-> Undefined]
Logged(req, http, wait) ==
  Append(req.log, [attempt |-> req.attempt, http |-> http, wait |-> wait])
NoWait == -1

\* the cache lookup at the head of makeApiRequest
StartRequest(req, cached) ==
  IF cached # Undefined
  THEN [req EXCEPT !.pc = "returned", !.response = Http(200, NoHeader, cached)]
  ELSE [req EXCEPT !.pc = "fetching"]

\* the loop body from the resolution of fetch up to the next await
AfterFetch(req, http) ==
  IF http.status = 429
  THEN LET delay == RateLimitDelay(http.retryAfter, req.attempt)
       IN  [req EXCEPT !.pc = "sleeping", !.log = Logged(req, http, delay)]
  ELSE IF http.status = 200
  THEN [req EXCEPT !.pc = "returned", !.response = http, !.log = Logged(req, http, NoWait)]
  ELSE \* fetch threw, or !response.ok threw: the catch block
       IF req.attempt = maxRetries - 1
       THEN [req EXCEPT !.pc = "raised", !.log = Logged(req, http, NoWait)]
       ELSE [req EXCEPT !.pc = "sleeping", !.log = Logged(req, http, FailureDelay(req.attempt))]

\* the sleep is over: attempt++ and the loop test; leaving the loop returns
\* undefined
AfterSleep(req) ==
  IF req.attempt + 1 < maxRetries
  THEN [req EXCEPT !.pc = "fetching", !.attempt = req.attempt + 1]
  ELSE [req EXCEPT !.pc = "returned", !.attempt = req.attempt + 1, !.response = Undefined]

Completed(req) == req.pc \in {"returned", "raised"}

\* the bodies a 2xx reply can carry
Bodies == {[type |-> "text", text |-> "reply1"], [type |-> "text", text |-> "reply2"]}
\* the ways a fetch can fail
Faults ==
  {Http(429, h, Undefined) : h \in RetryAfterHeaders}
  \cup {Http(500, NoHeader, Undefined), NetworkError}
\* what the network does to the fetches of one call
HttpOutcomes(req) == {Http(200, NoHeader, b) : b \in req.bodies} \cup req.faults
Prompts == {"prompt1", "prompt2"}

ApiInit ==
  /\ CtlInit
  /\ OtherIdle
  /\ PatchIdle
  /\ requests \in {<<NewRequest(p, Bodies, Faults)>> : p \in Prompts}
  /\ SelIdle
  /\ CreateIdle

\* makeApiRequest up to its first await: the response cache is consulted
ApiStart(i) ==
  /\ i \in DOMAIN requests
  /\ requests[i].pc = "called"
  /\ \E cached \in {Undefined} \cup requests[i].bodies :
       requests' = [requests EXCEPT ![i] = StartRequest(requests[i], cached)]
  /\ UNCHANGED <<ctlVars, patchVars, otherVars, createVars, selVars>>

\* the fetch of the current attempt settles
ApiFetchSettles(i) ==
  /\ i \in DOMAIN requests
  /\ requests[i].pc = "fetching"
  /\ \E http \in HttpOutcomes(requests[i]) :
       requests' = [requests EXCEPT ![i] = AfterFetch(requests[i], http)]
  /\ UNCHANGED <<ctlVars, patchVars, otherVars, createVars, selVars>>

\* the timer of this.sleep(delay) fires
ApiSleepEnds(i) ==
  /\ i \in DOMAIN requests
  /\ requests[i].pc = "sleeping"
  /\ requests' = [requests EXCEPT ![i] = AfterSleep(requests[i])]
  /\ UNCHANGED <<ctlVars, patchVars, otherVars, createVars, selVars>>

ApiNext == ApiStart(1) \/ ApiFetchSettles(1) \/ ApiSleepEnds(1)

SpecApi == ApiInit /\ [][ApiNext]_vars

\* ------------------------------------------- selection stage: descriptors
\* An element descriptor as preTrimDom and the model replies carry it; text
\* is kept as what the code looks at: whether it holds a high priority
\* keyword, and chars, the length of the descriptor's JSON text.
Descriptor(selector, tag, isInteractive, isNavigationCandidate, keyword, chars) ==
  [selector |-> selector, tag |-> tag, isInteractive |-> isInteractive,
   isNavigationCandidate |-> isNavigationCandidate, keyword |-> keyword, chars |-> chars]

\* JSON.stringify(element).length
stringifyLength(element) == element.chars


\* ------------------------------------ selection stage: chunkElementsArray
maxChunkSize == 25000
SplitAbove == 50
ThreeChunksAbove == 150
CeilDiv(a, b) == (a + b - 1) \div b

RECURSIVE SumRange(_, _, _)
\* the JSON lengths of els[lo..hi] added up
SumRange(els, lo, hi) ==
  IF lo > hi THEN 0
  ELSE IF lo = hi THEN stringifyLength(els[lo])
  ELSE LET mid == (lo + hi) \div 2
       IN  SumRange(els, lo, mid) + SumRange(els, mid + 1, hi)

\* the chunk the loop opens at element i always holds it, and is closed in
\* front of the first later element that would take it above maxChunkSize
ChunkEnd(els, i) ==
  LET fits == {k \in i..Len(els) : k = i \/ SumRange(els, i, k) <= maxChunkSize}
  IN  CHOOSE k \in fits : \A m \in fits : m <= k

RECURSIVE GreedyChunks(_, _)
\* the for loop of chunkElementsArray and the push of the last chunk
GreedyChunks(els, i) ==
  IF i > Len(els) THEN <<>>
  ELSE <<SubSeq(els, i, ChunkEnd(els, i))>> \o GreedyChunks(els, ChunkEnd(els, i) + 1)

\* the re-split that cuts after every chunkSize - 1 elements
Slices_OneShort(els, chunkSize) ==
  [j \in 1..CeilDiv(Len(els), chunkSize) |->
     SubSeq(els, (j - 1) * chunkSize + 1,
            IF j * chunkSize - 1 < Len(els) THEN j * chunkSize - 1 ELSE Len(els))]

\* for (let i = 0; i < elements.length; i += chunkSize) push(elements.slice(i, i + chunkSize))
Slices(els, chunkSize) ==
  [j \in 1..CeilDiv(Len(els), chunkSize) |->
     SubSeq(els, (j - 1) * chunkSize + 1,
            IF j * chunkSize < Len(els) THEN j * chunkSize ELSE Len(els))]

\* chunkElementsArray(elements)
chunkElementsArray(els) ==
  LET greedy == GreedyChunks(els, 1)
  IN  IF Len(greedy) = 1 /\ Len(els) > SplitAbove
      THEN LET targetChunks == IF Len(els) > ThreeChunksAbove THEN 3 ELSE 2
           IN  Slices(els, CeilDiv(Len(els), targetChunks))
      ELSE IF Len(greedy) > 3
           THEN Slices(els, CeilDiv(Len(els), 3))
           ELSE greedy

\* input arrays: n descriptors whose JSON lengths follow one of a few
\* patterns (all small, all a third of a chunk, all above a chunk, a large
\* one in front)
SizePatterns == {"small", "third", "huge", "front"}
CharsAt(pattern, i) ==
  CASE pattern = "small" -> 100
    [] pattern = "third" -> 9000
    [] pattern = "huge" -> 30000
    [] pattern = "front" -> IF i = 1 THEN 24950 ELSE 100
ElementArray(pattern, n) ==
  [i \in 1..n |-> Descriptor("#e" \o ToString(i), "div", FALSE, FALSE, FALSE, CharsAt(pattern, i))]

ChunkInit ==
  /\ CtlInit
  /\ OtherIdle
  /\ PatchIdle
  /\ CreateIdle
  /\ requests = <<>>
  /\ apiKey = "sk-key"
  /\ elements \in {ElementArray(p, n) : p \in {"small", "front"}, n \in 0..MaxElements}
                 \cup {ElementArray(p, n) : p \in {"third", "huge"}, n \in 0..(MaxElements \div 8)}
  /\ chunks = <<>>
  /\ chunkResults = <<>>
  /\ settled = <<>>
  /\ filteredElements = <<>>
  /\ selPc = "called"

\* chunkElementsArray(elements) runs and returns
ChunkElementsArrayCall ==
  /\ selPc = "called"
  /\ chunks' = chunkElementsArray(elements)
  /\ selPc' = "chunked"
  /\ UNCHANGED <<ctlVars, patchVars, otherVars, createVars, requests, apiKey, elements, chunkResults, settled,
                 filteredElements>>

SpecChunk == ChunkInit /\ [][ChunkElementsArrayCall]_vars

\* ---------------------------- selection stage: mergeFilteredElementChunks
highPriorityTags == {"input", "button", "a", "select", "textarea"}
\* isHighPriorityElement(element)
isHighPriorityElement(element) == element.tag \in highPriorityTags \/ element.keyword

\* the filter applied to the elements of a failed chunk
KeptLocally(element) ==
  element.isInteractive \/ element.isNavigationCandidate \/ isHighPriorityElement(element)

\* what selectElementsChunk resolves with
ChunkResult(els, success, index) == [elements |-> els, success |-> success, index |-> index]

RECURSIVE Dedup(_, _)
\* elements.filter(...) with the Set seen; an empty or missing selector is
\* falsy: such an element is kept and never remembered
Dedup(els, seen) ==
  IF els = <<>> THEN <<>>
  ELSE LET element == Head(els)
       IN  IF element.selector # "" /\ element.selector \in seen
           THEN Dedup(Tail(els), seen)
           ELSE <<element>> \o Dedup(Tail(els),
                                     IF element.selector # "" THEN seen \cup {element.selector}
                                     ELSE seen)

\* removeDuplicateElements returning its argument
removeDuplicateElements_KeepsAll(els) == els

\* removeDuplicateElements(elements)
removeDuplicateElements(els) == Dedup(els, {})

\* what one chunk result adds to allFilteredElements
Contribution(chunkResult) ==
  IF chunkResult.success THEN chunkResult.elements
  ELSE SelectSeq(chunkResult.elements, KeptLocally)

RECURSIVE AllFilteredElements(_)
\* filteredChunks.forEach(... allFilteredElements.push(...))
AllFilteredElements(filteredChunks) ==
  IF filteredChunks = <<>> THEN <<>>
  ELSE Contribution(Head(filteredChunks)) \o AllFilteredElements(Tail(filteredChunks))

\* mergeFilteredElementChunks(filteredChunks)
mergeFilteredElementChunks(filteredChunks) ==
  removeDuplicateElements(AllFilteredElements(filteredChunks))

\* descriptors as a model reply or a chunk can hold them: two with the same
\* selector, one that local filtering drops, one with an empty selector
InputS1 == Descriptor("#s1", "input", TRUE, FALSE, FALSE, 100)
DivS1 == Descriptor("#s1", "div", FALSE, FALSE, TRUE, 100)
DivS2 == Descriptor("#s2", "div", FALSE, FALSE, FALSE, 100)
LinkNoSelector == Descriptor("", "a", FALSE, TRUE, FALSE, 100)
ChunkArrays ==
  { <<>>, <<InputS1>>, <<DivS1, DivS2>>, <<DivS2, InputS1>>, <<InputS1, DivS1>>,
    <<LinkNoSelector>>, <<LinkNoSelector, DivS1>> }

RECURSIVE ChunkResultLists(_)
ChunkResultLists(n) ==
  IF n = 0 THEN {<<>>}
  ELSE LET shorter == ChunkResultLists(n - 1)
       IN  shorter \cup {Append(l, ChunkResult(els, ok, n - 1)) :
                            l \in {r \in shorter : Len(r) = n - 1},
                            els \in ChunkArrays, ok \in BOOLEAN}

MergeInit ==
  /\ CtlInit
  /\ OtherIdle
  /\ PatchIdle
  /\ CreateIdle
  /\ requests = <<>>
  /\ apiKey = "sk-key"
  /\ elements = <<>>
  /\ chunks = <<>>
  /\ chunkResults \in ChunkResultLists(MaxChunkResults)
  /\ settled = <<>>
  /\ filteredElements = <<>>
  /\ selPc = "joined"

\* mergeFilteredElementChunks(filteredChunks) runs and returns
MergeFilteredElementChunksCall ==
  /\ selPc = "joined"
  /\ filteredElements' = mergeFilteredElementChunks(chunkResults)
  /\ selPc' = "merged"
  /\ UNCHANGED <<ctlVars, patchVars, otherVars, createVars, requests, apiKey, elements, chunks, chunkResults, settled>>

SpecMerge == MergeInit /\ [][MergeFilteredElementChunksCall]_vars

\* --------------------------------------- selection stage: the model reply
\* data = await response.json(): with or without choices[0].message; the
\* message content is a text that is JSON or not; a JSON value is an array,
\* an object with the two fields the code looks at, a string or null
NoChoices == [choices |-> FALSE, content |-> Undefined]
Message(content) == [choices |-> TRUE, content |-> content]
NotJson == [type |-> "text"]
JsonNull == [type |-> "null"]
JsonString == [type |-> "string"]
JsonArray(items) == [type |-> "array", items |-> items]
JsonObject(els, tree) == [type |-> "object", elements |-> els, filtered_dom_tree |-> tree]
IsArray(value) == value.type = "array"
Truthy(value) == value.type \notin {"undefined", "null"}

\* the shape test without its filtered_dom_tree branch
NormalizeSelection_NoTree(value) ==
  IF IsArray(value) THEN value.items
  ELSE IF Truthy(value.elements) /\ IsArray(value.elements) THEN value.elements.items
  ELSE <<>>

\* if (Array.isArray(result)) ... else if (result.elements && ...) ... else
\* if (result.filtered_dom_tree && ...) ... else []
NormalizeSelection(value) ==
  IF IsArray(value) THEN value.items
  ELSE IF Truthy(value.elements) /\ IsArray(value.elements) THEN value.elements.items
  ELSE IF Truthy(value.filtered_dom_tree) /\ IsArray(value.filtered_dom_tree)
       THEN value.filtered_dom_tree.items
  ELSE <<>>

\* reading a field of null or of a string: the first raises a TypeError,
\* the second gives undefined
ReadsFields(value) == value.type \in {"array", "object", "string"}
AsObject(value) == IF value.type = "string" THEN JsonObject(Undefined, Undefined) ELSE value

\* makeApiRequest handed back a response (not an error, not undefined)
GotResponse(req) == req.pc = "returned" /\ req.response # Undefined

\* selectRelevantElementsSingle from the end of makeApiRequest on; threw: an
\* exception leaves the function
selectRelevantElementsSingle(req) ==
  IF ~GotResponse(req) THEN [threw |-> TRUE, elements |-> <<>>]
  ELSE LET data == req.response.body
       IN  IF ~data.choices \/ data.content = NotJson \/ ~ReadsFields(data.content)
           THEN [threw |-> TRUE, elements |-> <<>>]
           ELSE [threw |-> FALSE, elements |-> NormalizeSelection(AsObject(data.content))]

\* selectElementsChunk from the end of makeApiRequest on: every failure
\* resolves with the unfiltered chunk and success: false
selectElementsChunk(chunk, req, index) ==
  IF ~GotResponse(req) THEN ChunkResult(chunk, FALSE, index)
  ELSE LET data == req.response.body
       IN  IF ~data.choices \/ data.content = NotJson \/ ~ReadsFields(data.content)
           THEN ChunkResult(chunk, FALSE, index)
           ELSE ChunkResult(NormalizeSelection(AsObject(data.content)), TRUE, index)

\* ------------------------------- selection stage: selectRelevantDomElements
chunkThreshold == 60000
\* JSON.stringify(preTrimmedElements).length: brackets, elements, commas
stringifyArrayLength(els) ==
  2 + SumRange(els, 1, Len(els)) + (IF Len(els) > 1 THEN Len(els) - 1 ELSE 0)

NoKey == "#none"
Pending == [elements |-> <<>>, success |-> FALSE, index |-> -1]

\* the catch block of selectRelevantDomElements left out
Resolution_NoCatch(r, preTrimmed) ==
  IF r.threw THEN [pc |-> "rejected", filtered |-> <<>>]
  ELSE [pc |-> "resolved", filtered |-> r.elements]

\* how selectRelevantDomElements settles: the catch block resolves with the
\* pre-trimmed elements of the same DOM
Resolution(r, preTrimmed) ==
  IF r.threw THEN [pc |-> "resolved", filtered |-> preTrimmed]
  ELSE [pc |-> "resolved", filtered |-> r.elements]

\* the chunk results in the order the chunks settled
JoinedResults_SettleOrder(results, order) == [k \in 1..Len(order) |-> results[order[k]]]

\* await Promise.all(chunkPromises): the results in chunk order
JoinedResults(results, order) == results

\* pre-trimmed pages: one below the chunk threshold, an empty one, and two
\* above it that are cut into two and into three chunks
BigInput == Descriptor("#s1", "input", TRUE, FALSE, FALSE, 31000)
BigDiv == Descriptor("#s2", "div", FALSE, FALSE, FALSE, 31000)
WideDiv(n) == Descriptor("#w" \o ToString(n), "div", FALSE, FALSE, FALSE, 21000)
SmallPage == <<InputS1, DivS2>>
TwoChunkPage == <<BigInput, BigDiv>>
ThreeChunkPage == <<WideDiv(1), BigInput, WideDiv(3)>>
Pages == {<<>>, SmallPage, TwoChunkPage, ThreeChunkPage}

\* the replies the model can give to a selection prompt
SelectionBodies ==
  { Message(JsonArray(<<InputS1>>)),
    Message(JsonObject(JsonArray(<<DivS1, DivS2>>), Undefined)),
    Message(JsonObject(Undefined, JsonArray(<<InputS1, DivS2>>))),
    Message(JsonObject(JsonString, Undefined)),
    Message(NotJson),
    Message(JsonNull),
    NoChoices }
ChunkFaults == {Http(429, NoHeader, Undefined), NetworkError}
\* for the page of three chunks: fewer replies and faults
FewBodies == {Message(JsonArray(<<InputS1>>)), Message(NotJson)}
FewFaults == {NetworkError}

\* the requests a page leads to: one, or one per chunk
RequestsFor(els) ==
  IF stringifyArrayLength(els) > chunkThreshold
  THEN LET cs == chunkElementsArray(els)
       IN  [i \in 1..Len(cs) |->
              NewRequest("chunk " \o ToString(i), 
                         IF Len(cs) > 2 THEN FewBodies ELSE SelectionBodies,
                         IF Len(cs) > 2 THEN FewFaults ELSE ChunkFaults)]
  ELSE <<NewRequest("page", SelectionBodies, Faults)>>

SelectInit ==
  /\ CtlInit
  /\ OtherIdle
  /\ PatchIdle
  /\ CreateIdle
  /\ requests = <<>>
  /\ apiKey \in {"sk-key", NoKey}
  /\ elements \in Pages
  /\ chunks = <<>>
  /\ chunkResults = <<>>
  /\ settled = <<>>
  /\ filteredElements = <<>>
  /\ selPc = "called"

\* selectRelevantDomElements up to the first fetch: getApiKey, preTrimDom,
\* the size test, and the makeApiRequest calls with their cache lookups
SelectStart ==
  /\ selPc = "called"
  /\ IF apiKey = NoKey
     THEN LET res == Resolution([threw |-> TRUE, elements |-> <<>>], elements)
          IN  /\ selPc' = res.pc
              /\ filteredElements' = res.filtered
              /\ UNCHANGED <<requests, chunks, chunkResults>>
     ELSE LET new == RequestsFor(elements)
              chunked == stringifyArrayLength(elements) > chunkThreshold
          IN  /\ \E cached \in [DOMAIN new -> {Undefined} \cup SelectionBodies] :
                   /\ \A i \in DOMAIN new : cached[i] \in {Undefined} \cup new[i].bodies
                   /\ requests' = [i \in DOMAIN new |-> StartRequest(new[i], cached[i])]
              /\ chunks' = IF chunked THEN chunkElementsArray(elements) ELSE <<>>
              /\ chunkResults' = IF chunked THEN [i \in DOMAIN new |-> Pending] ELSE <<>>
              /\ selPc' = IF chunked THEN "chunked" ELSE "single"
              /\ UNCHANGED filteredElements
  /\ UNCHANGED <<ctlVars, patchVars, otherVars, createVars, apiKey, elements, settled>>

\* the single request is over: selectRelevantElementsSingle continues and
\* selectRelevantDomElements settles
SingleSettles ==
  /\ selPc = "single"
  /\ Completed(requests[1])
  /\ LET res == Resolution(selectRelevantElementsSingle(requests[1]), elements)
     IN  /\ selPc' = res.pc
         /\ filteredElements' = res.filtered
  /\ UNCHANGED <<ctlVars, patchVars, otherVars, createVars, requests, apiKey, elements, chunks, chunkResults, settled>>

\* the request of chunk i is over: its selectElementsChunk settles
ChunkSettles(i) ==
  /\ selPc = "chunked"
  /\ i \in DOMAIN requests
  /\ Completed(requests[i])
  /\ chunkResults[i] = Pending
  /\ chunkResults' = [chunkResults EXCEPT ![i] = selectElementsChunk(chunks[i], requests[i], i - 1)]
  /\ settled' = Append(settled, i)
  /\ UNCHANGED <<ctlVars, patchVars, otherVars, createVars, requests, apiKey, elements, chunks, filteredElements, selPc>>

\* Promise.all has every chunk result: merge, and selectRelevantDomElements
\* settles
ChunksJoined ==
  /\ selPc = "chunked"
  /\ Len(settled) = Len(chunks)
  /\ LET merged == mergeFilteredElementChunks(JoinedResults(chunkResults, settled))
         res == Resolution([threw |-> FALSE, elements |-> merged], elements)
     IN  /\ selPc' = res.pc
         /\ filteredElements' = res.filtered
  /\ UNCHANGED <<ctlVars, patchVars, otherVars, createVars, requests, apiKey, elements, chunks, chunkResults, settled>>

\* a makeApiRequest call of the selection stage moves on
SelectFetchSettles == \E i \in DOMAIN requests : selPc \in {"single", "chunked"} /\ ApiFetchSettles(i)
SelectSleepEnds == \E i \in DOMAIN requests : selPc \in {"single", "chunked"} /\ ApiSleepEnds(i)
SomeChunkSettles == \E i \in DOMAIN requests : ChunkSettles(i)

SelectNext ==
  \/ SelectStart
  \/ SelectFetchSettles
  \/ SelectSleepEnds
  \/ SingleSettles
  \/ SomeChunkSettles
  \/ ChunksJoined

SpecSelect == SelectInit /\ [][SelectNext]_vars

\* ------------------------------------ patch stage: createHtmlPatchFromSelection
\* generateBaseHtmlFromSelection resolves with a complete document: the one
\* built from the selection, or the fixed one of its catch block
GeneratedBase == HtmlText(TRUE, "document", <<Body(<<DivA>>)>>)
TemplateBase == HtmlText(TRUE, "document", <<Body(<<Element("div", "", <<TextA>>)>>)>>)
BaseHtmls(key) == IF key = NoKey THEN {TemplateBase} ELSE {GeneratedBase, TemplateBase}

\* { version: '1.0', operations: [{ op: 'replaceFullDocument', html: baseHtml }] }
FullDocumentPatch(baseHtml) ==
  [type |-> "object", version |-> "1.0",
   operations |-> <<Operation("replaceFullDocument", "", baseHtml, "", "")>>]

\* a patch the model wrote
ModelPatch == [type |-> "object", version |-> "1.0",
               operations |-> <<Operation("append", "#a", FragB, "", "")>>]
PatchBodies == {Message(ModelPatch), Message(NotJson), NoChoices}

\* the characters String.prototype.trim removes
WhiteSpace == {" ", "\n", "\t"}

RECURSIVE TrimStart(_)
TrimStart(nodes) ==
  IF nodes = <<>> \/ nodes[1].tag # "#text" THEN nodes
  ELSE IF nodes[1].text = <<>> THEN TrimStart(Tail(nodes))
  ELSE IF nodes[1].text[1] \in WhiteSpace
  THEN TrimStart(<<TextNode(Tail(nodes[1].text))>> \o Tail(nodes))
  ELSE nodes

RECURSIVE TrimEnd(_)
TrimEnd(nodes) ==
  LET n == Len(nodes)
      last == nodes[n]
      front == SubSeq(nodes, 1, n - 1)
  IN  IF nodes = <<>> \/ last.tag # "#text" THEN nodes
      ELSE IF last.text = <<>> THEN TrimEnd(front)
      ELSE IF last.text[Len(last.text)] \in WhiteSpace
      THEN TrimEnd(Append(front, TextNode(SubSeq(last.text, 1, Len(last.text) - 1))))
      ELSE nodes

\* String.prototype.trim on the text of a page
trim(html) == [html EXCEPT !.nodes = TrimEnd(TrimStart(html.nodes))]

\* !oldHtml || oldHtml.trim() === ''
IsBlank(html) == html = Undefined \/ html = EmptyString \/ trim(html) = EmptyString

\* the values of oldHtml of a first generation, and a page to patch
WhiteSpaceOnly == HtmlText(FALSE, "fragment", <<TextNode(<<" ", "\n">>)>>)
PaddedText == HtmlText(FALSE, "fragment", <<TextNode(<<" ", "A", " ">>)>>)
CreateOldHtmls ==
  {Undefined, EmptyString, WhiteSpaceOnly, PaddedText,
   HtmlText(FALSE, "document", <<Body(<<DivA, DivB>>)>>)}

\* the part of createHtmlPatchFromSelection after makeApiRequest; threw: an
\* exception reaches the catch block
ParsedPatch(req) ==
  IF ~GotResponse(req) THEN [threw |-> TRUE, value |-> Undefined]
  ELSE LET data == req.response.body
       IN  IF ~data.choices \/ data.content = NotJson THEN [threw |-> TRUE, value |-> Undefined]
           ELSE [threw |-> FALSE, value |-> data.content]

CreateInit ==
  /\ CtlInit
  /\ OtherIdle
  /\ oldHtml \in CreateOldHtmls
  /\ patch = [iterable |-> TRUE, operations |-> <<>>]
  /\ result = EmptyString
  /\ pc = "idle"
  /\ patch2 = [iterable |-> TRUE, operations |-> <<>>]
  /\ result2 = EmptyString
  /\ requests = <<>>
  /\ apiKey \in {"sk-key", NoKey}
  /\ elements \in {SmallPage}
  /\ chunks = <<>>
  /\ chunkResults = <<>>
  /\ settled = <<>>
  /\ filteredElements = <<>>
  /\ selPc = "idle"
  /\ createPc = "called"
  /\ createdPatch = Undefined

\* createHtmlPatchFromSelection up to the fetch: getApiKey in front of the
\* try block, the blank oldHtml case, and the makeApiRequest call
CreateStart ==
  /\ createPc = "called"
  /\ IF apiKey = NoKey
     THEN /\ createPc' = "rejected"
          /\ UNCHANGED <<createdPatch, requests>>
     ELSE IF IsBlank(oldHtml)
     THEN /\ \E baseHtml \in BaseHtmls(apiKey) : createdPatch' = FullDocumentPatch(baseHtml)
          /\ createPc' = "resolved"
          /\ UNCHANGED requests
     ELSE /\ \E cached \in {Undefined} \cup PatchBodies :
               requests' = <<StartRequest(NewRequest("patch", PatchBodies, Faults), cached)>>
          /\ createPc' = "requested"
          /\ UNCHANGED createdPatch
  /\ UNCHANGED <<ctlVars, patchVars, otherVars, selVars>>

\* the request is over: the parsed reply is returned, or the catch block
\* builds the full-document patch
CreateSettles ==
  /\ createPc = "requested"
  /\ Completed(requests[1])
  /\ LET r == ParsedPatch(requests[1])
     IN  IF r.threw
         THEN \E baseHtml \in BaseHtmls(apiKey) : createdPatch' = FullDocumentPatch(baseHtml)
         ELSE createdPatch' = r.value
  /\ createPc' = "resolved"
  /\ UNCHANGED <<ctlVars, patchVars, otherVars, selVars, requests>>

CreateFetchSettles == createPc = "requested" /\ ApiFetchSettles(1)
CreateSleepEnds == createPc = "requested" /\ ApiSleepEnds(1)

CreateNext == CreateStart \/ CreateFetchSettles \/ CreateSleepEnds \/ CreateSettles

SpecCreate == CreateInit /\ [][CreateNext]_vars

\* ------------------------------------------------ LLM client: response cache
\* Prompts and API keys are sequences of characters. For prompts of at most
\* two characters every intermediate hash value is below 2^31, where << and ^
\* act on int32 as on the natural numbers.
charCodeAt(c) == CASE c = "a" -> 97 [] c = "b" -> 98 [] c = "@" -> 64

RECURSIVE Xor(_, _)
Xor(a, b) ==
  IF a = 0 THEN b
  ELSE IF b = 0 THEN a
  ELSE 2 * Xor(a \div 2, b \div 2) + ((a + b) % 2)

Abs(n) == IF n < 0 THEN 0 - n ELSE n

RECURSIVE djb2(_, _)
\* promptHash = ((promptHash << 5) + promptHash) + char, for every character
djb2(promptHash, chars) ==
  IF chars = <<>> THEN promptHash
  ELSE djb2(promptHash * 32 + promptHash + charCodeAt(Head(chars)), Tail(chars))

\* apiKey.substring(0, 8)
substring8(text) == SubSeq(text, 1, IF Len(text) < 8 THEN Len(text) ELSE 8)

\* `llm_cache_${type}_${apiKeyHash}_${combinedHash}`
generateCacheKey(key, prompt, type) ==
  LET apiKeyHash == substring8(key)
      promptHash == djb2(5381, prompt)
      lengthHash == Len(prompt) * 37
      combinedHash == Abs(Xor(promptHash, lengthHash))
  IN  <<"llm_cache", type, apiKeyHash, combinedHash>>

\* what localStorage holds under a key: nothing (getItem gives null), or a text
NoItem == [text |-> "null"]
EmptyText == [text |-> "empty"]
Garbage == [text |-> "garbage"]
\* JSON.stringify(value); JSON.parse gives the value back
Stringified(value) == [text |-> "json", value |-> value]
JsonNumber == [type |-> "number"]

maxAge == 86400000

\* !cacheEntry.data || !cacheEntry.timestamp || !cacheEntry.prompt
Falsy(cacheEntry, field) ==
  \/ field \notin DOMAIN cacheEntry
  \/ field = "data" /\ ~Truthy(cacheEntry.data)
  \/ field = "timestamp" /\ cacheEntry.timestamp = 0
  \/ field = "prompt" /\ cacheEntry.prompt = <<>>
InvalidStructure(cacheEntry) ==
  Falsy(cacheEntry, "data") \/ Falsy(cacheEntry, "timestamp") \/ Falsy(cacheEntry, "prompt")

\* the expiry test with the entry already stale at the age of maxAge
Expired_AtMaxAge(cacheEntry, clock) == clock - cacheEntry.timestamp >= maxAge

\* Date.now() - cacheEntry.timestamp > maxAge
Expired(cacheEntry, clock) == clock - cacheEntry.timestamp > maxAge

\* the lookup without the comparison of the stored prompt
getCacheResponse_AnyPrompt(storage, cacheKey, prompt, type, clock) ==
  LET cached == storage[cacheKey]
      removed == [storage EXCEPT ![cacheKey] = NoItem]
      Miss(st) == [value |-> JsonNull, storage |-> st]
  IN  IF cached \in {NoItem, EmptyText, Garbage} THEN Miss(storage)
      ELSE LET cacheEntry == cached.value
           IN  IF cacheEntry = JsonNull THEN Miss(storage)
               ELSE IF InvalidStructure(cacheEntry) THEN Miss(removed)
               ELSE IF Expired(cacheEntry, clock) THEN Miss(removed)
               ELSE IF "type" \notin DOMAIN cacheEntry \/ cacheEntry.type # type
               THEN Miss(storage)
               ELSE [value |-> cacheEntry.data, storage |-> storage]

\* getCacheResponse(cacheKey, prompt, type): the value returned (null on a
\* miss) and what localStorage holds afterwards. No item and the empty text
\* fail `!cached`; a text that is not JSON makes JSON.parse throw and the
\* text null makes `cacheEntry.data` throw, and the catch block returns null.
getCacheResponse(storage, cacheKey, prompt, type, clock) ==
  LET cached == storage[cacheKey]
      removed == [storage EXCEPT ![cacheKey] = NoItem]
      Miss(st) == [value |-> JsonNull, storage |-> st]
  IN  IF cached \in {NoItem, EmptyText, Garbage} THEN Miss(storage)
      ELSE LET cacheEntry == cached.value
           IN  IF cacheEntry = JsonNull THEN Miss(storage)
               ELSE IF InvalidStructure(cacheEntry) THEN Miss(removed)
               ELSE IF Expired(cacheEntry, clock) THEN Miss(removed)
               ELSE IF cacheEntry.prompt # prompt THEN Miss(storage)
               ELSE IF "type" \notin DOMAIN cacheEntry \/ cacheEntry.type # type
               THEN Miss(storage)
               ELSE [value |-> cacheEntry.data, storage |-> storage]

\* storeCacheResponse(cacheKey, responseData, prompt, type); full: setItem
\* throws for lack of room and the catch block leaves the storage as it is
storeCacheResponse(storage, cacheKey, responseData, prompt, type, clock, full) ==
  LET cacheEntry == [data |-> responseData, prompt |-> prompt, type |-> type,
                     timestamp |-> clock, version |-> "1.1"]
  IN  IF full THEN storage ELSE [storage EXCEPT ![cacheKey] = Stringified(cacheEntry)]

\* the storing step with the status test left out
CacheSuccessful_AnyStatus(storage, req, http, clock, full) ==
  IF http.body # NotJson /\ http.status # 0
  THEN storeCacheResponse(storage, req.cacheKey, http.body, req.prompt, req.type, clock, full)
  ELSE storage

\* "Cache successful response" in makeApiRequest: reached with a 2xx status
\* only; responseClone.json() throws on a body that is not JSON
CacheSuccessful(storage, req, http, clock, full) ==
  IF http.status = 200 /\ http.body # NotJson
  THEN storeCacheResponse(storage, req.cacheKey, http.body, req.prompt, req.type, clock, full)
  ELSE storage

\* ---- the calls made
PromptA == <<"a", "a">>
PromptB == <<"b", "@">>
PromptC == <<"a", "b">>
CachePrompts == {PromptA, PromptB, PromptC}
Types == {"selection", "patch"}
KeyPrefix == <<"s", "k", "-", "p", "r", "o", "j", "-">>
\* the key getApiKey found
CacheApiKey == KeyPrefix \o <<"a", "b", "c">>
StorageKeys == {generateCacheKey(CacheApiKey, p, t) : p \in CachePrompts, t \in Types}

Payload(id) == [type |-> "object", id |-> id]

\* a backend that answers the same way every time it is asked the same thing
Backend(type, prompt) ==
  CASE type = "selection" /\ prompt = PromptA -> Http(200, NoHeader, Payload("selA"))
    [] type = "selection" /\ prompt = PromptB -> Http(200, NoHeader, Payload("selB"))
    [] type = "selection" /\ prompt = PromptC -> Http(500, NoHeader, Undefined)
    [] type = "patch" /\ prompt = PromptA -> Http(200, NoHeader, NotJson)
    [] type = "patch" /\ prompt = PromptB -> Http(429, NoHeader, Undefined)
    [] type = "patch" /\ prompt = PromptC -> Http(200, NoHeader, JsonNull)

CacheRequest(key, prompt, type) ==
  [prompt |-> prompt, type |-> type, cacheKey |-> generateCacheKey(key, prompt, type),
   pc |-> "called", attempt |-> 0, log |-> <<>>, response |-> Undefined]

\* records that an earlier writer left behind in malformed state
MalformedEntries ==
  { JsonNull, JsonNumber,
    [prompt |-> PromptA, type |-> "selection", timestamp |-> 1],
    [data |-> Payload("old"), type |-> "selection", timestamp |-> 1],
    [data |-> Payload("old"), prompt |-> PromptA, type |-> "selection"] }
MalformedItems == {EmptyText, Garbage} \cup {Stringified(e) : e \in MalformedEntries}
EmptyStorage == [k \in StorageKeys |-> NoItem]

CacheInit ==
  /\ CtlInit
  /\ PatchIdle
  /\ SelIdle
  /\ CreateIdle
  /\ MessageIdle
  /\ SurfaceIdle
  /\ ExtraIdle
  /\ requests = <<>>
  /\ localStorage = EmptyStorage
  /\ now = 1
  /\ lookup = NoLookup

\* the cache holds one malformed record
CacheMalformedInit ==
  /\ CtlInit
  /\ PatchIdle
  /\ SelIdle
  /\ CreateIdle
  /\ MessageIdle
  /\ SurfaceIdle
  /\ ExtraIdle
  /\ requests = <<>>
  /\ localStorage \in
       {[EmptyStorage EXCEPT ![generateCacheKey(CacheApiKey, PromptA, "selection")] = m] :
          m \in MalformedItems}
  /\ now = 1
  /\ lookup = NoLookup

\* makeApiRequest(apiKey, prompt, type) up to its first await: the key, the
\* lookup, and the mock response on a hit
CacheCall ==
  /\ Len(requests) < MaxCalls
  /\ \E prompt \in CachePrompts, type \in Types :
       LET req == CacheRequest(CacheApiKey, prompt, type)
           got == getCacheResponse(localStorage, req.cacheKey, prompt, type, now)
       IN  /\ localStorage' = got.storage
           /\ lookup' = [made |-> TRUE, call |-> Len(requests) + 1, prompt |-> prompt,
                         type |-> type, at |-> now, found |-> localStorage[req.cacheKey],
                         left |-> got.storage[req.cacheKey], returned |-> got.value]
           /\ requests' = Append(requests,
                StartRequest(req, IF Truthy(got.value) THEN got.value ELSE Undefined))
  /\ UNCHANGED <<ctlVars, patchVars, selVars, createVars, messageVars, surfaceVars, extraVars, now>>

\* the fetch of a call settles with the backend's answer, and a successful
\* answer is stored
CacheFetchSettles ==
  \E i \in DOMAIN requests :
    /\ requests[i].pc = "fetching"
    /\ LET req == requests[i]
           http == Backend(req.type, req.prompt)
       IN  /\ requests' = [requests EXCEPT ![i] = AfterFetch(req, http)]
           /\ \E full \in BOOLEAN :
                localStorage' = CacheSuccessful(localStorage, req, http, now, full)
    /\ UNCHANGED <<ctlVars, patchVars, selVars, createVars, messageVars, surfaceVars, extraVars, now, lookup>>

CacheSleepEnds == \E i \in DOMAIN requests : ApiSleepEnds(i)

\* time passes: a millisecond, or 24 hours
Tick ==
  /\ \/ now % maxAge <= MaxDrift /\ now' = now + 1
     \/ now \div maxAge < MaxDays /\ now' = now + maxAge
  /\ UNCHANGED <<ctlVars, patchVars, llmVars, messageVars, surfaceVars, extraVars,
                 localStorage,
                 lookup>>

CacheNext == CacheCall \/ CacheFetchSettles \/ CacheSleepEnds \/ Tick

SpecCache == CacheInit /\ [][CacheNext]_vars
SpecCacheMalformed == CacheMalformedInit /\ [][CacheNext]_vars

RECURSIVE Settle(_, _)
\* a call run to its end against one answer of the backend
Settle(req, http) ==
  IF Completed(req) THEN req
  ELSE IF req.pc = "fetching" THEN Settle(AfterFetch(req, http), http)
  ELSE Settle(AfterSleep(req), http)

\* makeApiRequest with the cache bypassed: every lookup a miss
Bypassed(req) ==
  Settle(StartRequest([req EXCEPT !.pc = "called", !.attempt = 0, !.log = <<>>,
                                  !.response = Undefined], Undefined),
         Backend(req.type, req.prompt))

\* -------------------------------------------- materializer: createCopy
\* Texts are sequences of tokens: single characters, the three characters
\* ' > ', a long run of name characters, and whole HTML tags. An undefined,
\* null or empty descriptor field is the empty sequence.
Quote == "\""
QuoteEntity == "&quot;"
Separator == " > "
LongName == "long-class-name"
LongNameLength == 120
TagTokens == {"<b>", "</b>"}
Length(text) ==
  LET RECURSIVE Sum(_)
      Sum(i) == IF i = 0 THEN 0
                ELSE Sum(i - 1) + (CASE text[i] = Separator -> 3
                                     [] text[i] = LongName -> LongNameLength
                                     [] OTHER -> 1)
  IN  Sum(Len(text))

\* a || b
Or(a, b) == IF a # <<>> THEN a ELSE b

RECURSIVE TrimText(_)
\* String.prototype.trim
TrimText(text) ==
  IF text = <<>> THEN text
  ELSE IF Head(text) \in WhiteSpace THEN TrimText(Tail(text))
  ELSE IF text[Len(text)] \in WhiteSpace THEN TrimText(SubSeq(text, 1, Len(text) - 1))
  ELSE text

\* textContent.replace(/<[^>]*>/g, '')
StripTags(text) == SelectSeq(text, LAMBDA t : t \notin TagTokens)
\* textContent.includes('<')
IncludesLt(text) == \E i \in 1..Len(text) : text[i] \in TagTokens

ElementDescriptor(tag, type, role, text, label, selector) ==
  [tag |-> tag, type |-> type, role |-> role, text |-> text, textContent |-> <<>>,
   value |-> <<>>, title |-> <<>>, alt |-> <<>>, innerText |-> <<>>, innerHTML |-> <<>>,
   name |-> <<>>, label |-> label, selector |-> selector]

shouldRenderAsButton(originalElement) ==
  \/ originalElement.tag = "button"
  \/ originalElement.tag = "a"
  \/ originalElement.tag = "input" /\ originalElement.type \in {"button", "submit"}
  \/ originalElement.role = "button"

\* the text createCopy gives the new element; <<>>: textContent is not set
CopyText(originalElement) ==
  LET tagName == originalElement.tag
      asButton == shouldRenderAsButton(originalElement)
      initial == Or(originalElement.text, originalElement.textContent)
      forInput == IF tagName = "input" /\ originalElement.value # <<>>
                  THEN originalElement.value ELSE initial
      forRoleInput ==
        IF asButton /\ tagName = "input" /\ originalElement.role = "button" /\ forInput = <<>>
        THEN Or(originalElement.value, Or(originalElement.title, originalElement.alt))
        ELSE forInput
      linkFallback ==
        IF forRoleInput = <<>>
        THEN Or(originalElement.innerText, Or(originalElement.innerHTML,
               Or(originalElement.title, Or(originalElement.alt, originalElement.name))))
        ELSE forRoleInput
      forLink ==
        IF asButton /\ tagName = "a"
        THEN IF linkFallback # <<>> /\ IncludesLt(linkFallback)
             THEN TrimText(StripTags(linkFallback)) ELSE linkFallback
        ELSE forRoleInput
      textContent == IF forLink = <<>> /\ originalElement.label # <<>>
                     THEN originalElement.label ELSE forLink
  IN  IF textContent # <<>>
      THEN IF TrimText(textContent) # <<>> THEN TrimText(textContent)
           ELSE IF asButton THEN <<"[Button]">> ELSE <<"[Element]">>
      ELSE IF asButton THEN (IF tagName = "a" THEN <<"[Link]">> ELSE <<"[Button]">>)
      ELSE <<>>

\* fullSelector.split(' > ') and its last part
LastPart(text) ==
  LET seps == {i \in 1..Len(text) : text[i] = Separator}
  IN  IF seps = {} THEN text
      ELSE SubSeq(text, (CHOOSE i \in seps : \A j \in seps : j <= i) + 1, Len(text))

RECURSIVE Substring(_, _)
\* fullSelector.substring(0, n), cutting in front of a token that does not fit
Substring(text, n) ==
  IF text = <<>> \/ Length(<<Head(text)>>) > n THEN <<>>
  ELSE <<Head(text)>> \o Substring(Tail(text), n - Length(<<Head(text)>>))

\* the shortened selector stored in data-selector
displaySelector(fullSelector) ==
  IF Length(fullSelector) > 100
  THEN Or(LastPart(fullSelector), Substring(fullSelector, 100) \o <<".", ".", ".">>)
  ELSE fullSelector

\* 'elem-' + Math.random().toString(36).substr(2, 9): a different id each time
ElementId(n) == <<"elem-" \o ToString(n)>>

\* createCopy(domElements) for an array of descriptors, with addEventHandlers:
\* the new elements (attributes that play no part in the text or in the
\* messages are left out) and the entries set in window.selectorRegistry
NewElement(originalElement, n) ==
  LET asButton == shouldRenderAsButton(originalElement)
      tagName == IF asButton THEN "button" ELSE originalElement.tag
  IN  [tagName |-> tagName,
       type |-> IF originalElement.tag = "input" /\ ~asButton THEN originalElement.type ELSE "",
       textContent |-> CopyText(originalElement),
       dataSelector |-> displaySelector(originalElement.selector),
       dataElemId |-> ElementId(n),
       fullSelector |-> originalElement.selector,
       handler |-> IF tagName \in {"button", "a"} THEN "onclick"
                   ELSE IF tagName \in {"input", "textarea"} THEN "onchange" ELSE "none",
       source |-> n]
createCopy(domElements) ==
  LET tagged == SelectSeq([n \in 1..Len(domElements) |-> [n |-> n, e |-> domElements[n]]],
                          LAMBDA x : x.e.tag # "")
  IN  [i \in 1..Len(tagged) |-> NewElement(tagged[i].e, tagged[i].n)]

\* ---- from the new elements to the listeners in the srcdoc iframe
\* the serializer writes a double quote inside an attribute value as &quot;
EscapeAttribute(value) == [i \in 1..Len(value) |-> IF value[i] = Quote THEN QuoteEntity ELSE value[i]]
\* element.outerHTML: the markup of one attribute
AttributeMarkup(value) == <<Quote>> \o EscapeAttribute(value) \o <<Quote>>
\* htmlWithCSS.replace(/"/g, '&quot;'), the value given to srcdoc
SrcdocValue(markup) == [i \in 1..Len(markup) |-> IF markup[i] = Quote THEN QuoteEntity ELSE markup[i]]
\* the parser reads an attribute value: character references become characters
DecodeEntities(value) == [i \in 1..Len(value) |-> IF value[i] = QuoteEntity THEN Quote ELSE value[i]]
\* the parser reads a double-quoted attribute: the value ends at the next quote
ParseAttribute(markup) ==
  LET rest == Tail(markup)
      quotes == {i \in 1..Len(rest) : rest[i] = Quote}
      end == IF quotes = {} THEN Len(rest) + 1 ELSE CHOOSE i \in quotes : \A j \in quotes : i <= j
  IN  DecodeEntities(SubSeq(rest, 1, end - 1))

\* the attribute the iframe's document has after innerHTML = wrapForSideBySide(html)
RenderedAttribute(value) == ParseAttribute(DecodeEntities(SrcdocValue(AttributeMarkup(value))))

\* an element of the srcdoc document and the listeners the inline script adds:
\* properties set by createCopy (_fullSelector, onclick, onchange) do not pass
\* through outerHTML
RenderedElement(element) ==
  [tagName |-> element.tagName, type |-> element.type,
   dataSelector |-> RenderedAttribute(element.dataSelector),
   dataElemId |-> RenderedAttribute(element.dataElemId),
   listeners |-> (IF element.tagName \in {"button", "a"}
                     \/ (element.tagName = "input" /\ element.type \in {"button", "submit"})
                  THEN {"click"} ELSE {})
                 \cup (IF element.tagName \in {"input", "textarea"} THEN {"change"} ELSE {}),
   source |-> element.source]

\* ---- the descriptors tried
TextValues == {<<>>, <<" ">>, <<"G", "o">>, <<"<b>", "</b>">>}
Kinds ==
  { [tag |-> "a", type |-> "", role |-> ""], [tag |-> "button", type |-> "", role |-> ""],
    [tag |-> "input", type |-> "submit", role |-> ""],
    [tag |-> "input", type |-> "text", role |-> "button"],
    [tag |-> "div", type |-> "", role |-> "button"],
    [tag |-> "input", type |-> "text", role |-> ""], [tag |-> "", type |-> "", role |-> ""] }
ShortSelector == <<"#", "a">>
QuotedSelector == <<"a", "[", "r", "=", Quote, "b", Quote, "]">>
LongSelector == <<"d", ".", LongName, Separator, "a">>
LongPlainSelector == <<"a", ".", LongName>>
Selectors == {ShortSelector, QuotedSelector, LongSelector, LongPlainSelector}
TextDescriptors ==
  { [ElementDescriptor(k.tag, k.type, k.role, text, label, ShortSelector)
       EXCEPT !.value = value, !.title = title, !.alt = alt, !.name = name] :
      k \in Kinds, text \in TextValues, label \in {<<>>, <<"L">>}, value \in {<<>>, <<"V">>},
      title \in {<<>>, <<"T">>}, alt \in {<<>>, <<"A">>}, name \in {<<>>, <<"N">>} }
SelectorDescriptors ==
  { ElementDescriptor(k.tag, k.type, k.role, <<"G", "o">>, <<>>, s) : k \in Kinds, s \in Selectors }
DescriptorArrays ==
  {<<d>> : d \in TextDescriptors \cup SelectorDescriptors}
  \cup {<<d1, d2>> : d1, d2 \in {d \in SelectorDescriptors : d.tag \in {"a", "input"} /\ d.role = ""}}

CopyInit ==
  /\ CtlInit
  /\ PatchIdle
  /\ LlmIdle
  /\ CacheIdle
  /\ MessageIdle
  /\ SelectorIdle
  /\ ExtraIdle
  /\ filteredDomJson \in DescriptorArrays
  /\ duplicatedElements = <<>>
  /\ selectorRegistry = <<>>
  /\ srcdocElements = <<>>
  /\ posted = NotPosted
  /\ copyPc = "called"

\* window.createCopy(filteredDomJson)
CreateCopyCall ==
  /\ copyPc = "called"
  /\ duplicatedElements' = createCopy(filteredDomJson)
  /\ selectorRegistry' = [i \in 1..Len(createCopy(filteredDomJson)) |->
                            [id |-> createCopy(filteredDomJson)[i].dataElemId,
                             selector |-> createCopy(filteredDomJson)[i].fullSelector]]
  /\ copyPc' = "copied"
  /\ UNCHANGED <<ctlVars, patchVars, llmVars, cacheVars, messageVars, selectorVars, extraVars,
                 filteredDomJson,
                 srcdocElements, posted>>

\* generatePageHTML joins the outerHTML of the copies, wrapForSideBySide puts
\* the document into srcdoc, and the iframe's inline script adds its listeners
RenderInFrame ==
  /\ copyPc = "copied"
  /\ srcdocElements' = [i \in 1..Len(duplicatedElements) |-> RenderedElement(duplicatedElements[i])]
  /\ copyPc' = "rendered"
  /\ UNCHANGED <<ctlVars, patchVars, llmVars, cacheVars, messageVars, selectorVars, extraVars,
                 filteredDomJson,
                 duplicatedElements, selectorRegistry, posted>>

\* the user clicks or changes an element of the generated page: the listener
\* posts this.getAttribute('data-selector')
UserActs ==
  /\ copyPc = "rendered"
  /\ \E i \in 1..Len(srcdocElements), event \in {"click", "change"} :
       /\ event \in srcdocElements[i].listeners
       /\ posted' = [made |-> TRUE, element |-> i,
                     type |-> IF event = "click" THEN "CLICK_ELEMENT" ELSE "CHANGE_ELEMENT",
                     selector |-> srcdocElements[i].dataSelector]
  /\ UNCHANGED <<ctlVars, patchVars, llmVars, cacheVars, messageVars, selectorVars, extraVars,
                 filteredDomJson,
                 duplicatedElements, selectorRegistry, srcdocElements, copyPc>>

CopyNext == CreateCopyCall \/ RenderInFrame \/ UserActs

SpecCopy == CopyInit /\ [][CopyNext]_vars

\* ------------------------------------- serializer: computeRobustSelector
RECURSIVE ElementAt(_, _)
\* the element a path of child positions leads to from the body
ElementAt(body, path) ==
  IF path = <<>> THEN body ELSE ElementAt(body.children[Head(path)], Tail(path))

RECURSIVE PathsOf(_)
\* document.querySelectorAll('*') below and including the body, as paths
PathsOf(node) ==
  {<<>>} \cup UNION { { <<i>> \o p : p \in PathsOf(node.children[i]) } : i \in 1..Len(node.children) }

\* current.parentElement.children
SiblingsAt(body, path) ==
  IF path = <<>> THEN <<Leaf("head", ""), body>>
  ELSE ElementAt(body, SubSeq(path, 1, Len(path) - 1)).children
PositionAt(path) == IF path = <<>> THEN 2 ELSE path[Len(path)]

FrameworkPrefixes == {"ng-", "react-", "vue-", "js-"}
\* cls.match(/^(ng-|react-|vue-|js-)/)
IsFrameworkClass(cls) == \E p \in FrameworkPrefixes : cls = p \o "x"

\* siblings.indexOf(current) + 1 with siblings filtered to the same tag
SegmentIndex(siblings, position, tagName) ==
  Cardinality({i \in 1..position : siblings[i].tagName = tagName})

\* one segment of the path: tag, classes, role, nth (0: no :nth-child)
Segment(body, path) ==
  LET current == ElementAt(body, path)
      siblings == SiblingsAt(body, path)
      sameTag == {i \in 1..Len(siblings) : siblings[i].tagName = current.tagName}
  IN  [tagName |-> current.tagName,
       classes |-> IF Len(current.classes) > 0 /\ Len(current.classes) <= 3
                   THEN SelectSeq(current.classes, LAMBDA c : ~IsFrameworkClass(c)) ELSE <<>>,
       role |-> current.role,
       nth |-> IF Cardinality(sameTag) > 1
               THEN SegmentIndex(siblings, PositionAt(path), current.tagName) ELSE 0]

\* computeRobustSelector(element) for the element at path
computeRobustSelector(body, path) ==
  IF ElementAt(body, path).id # ""
  THEN [byId |-> TRUE, id |-> ElementAt(body, path).id]
  ELSE [byId |-> FALSE, segments |-> [i \in 1..(Len(path) + 1) |-> Segment(body, SubSeq(path, 1, i - 1))]]

\* a compound selector tag.class[role="r"]:nth-child(n) against one element
SegmentMatches(segment, body, path) ==
  LET e == ElementAt(body, path)
  IN  /\ e.tagName = segment.tagName
      /\ \A i \in 1..Len(segment.classes) : \E j \in 1..Len(e.classes) : e.classes[j] = segment.classes[i]
      /\ segment.role = "" \/ e.role = segment.role
      /\ segment.nth = 0 \/ PositionAt(path) = segment.nth

\* document.querySelectorAll(selector), as the set of paths of the matches
querySelectorAll(body, selector) ==
  IF selector.byId
  THEN {p \in PathsOf(body) : ElementAt(body, p).id = selector.id}
  ELSE {p \in PathsOf(body) :
          /\ Len(p) + 1 >= Len(selector.segments)
          /\ \A k \in 1..Len(selector.segments) :
               SegmentMatches(selector.segments[k], body,
                              SubSeq(p, 1, Len(p) + 1 - Len(selector.segments) + k - 1))}

\* ---- the documents tried
CapturedDocuments ==
  { PlainBody(<<Leaf("div", ""), Leaf("div", "")>>),
    PlainBody(<<Leaf("span", ""), Leaf("div", ""), Leaf("div", "")>>),
    PlainBody(<<Leaf("div", "x"), Leaf("p", "x")>>),
    PlainBody(<<Leaf("div", "x"), Leaf("p", "y"), Leaf("a", "")>>),
    PlainBody(<<DomElement("ul", "", <<>>, "", <<Leaf("li", ""), Leaf("li", "")>>),
                DomElement("ul", "", <<>>, "", <<Leaf("li", "")>>)>>),
    PlainBody(<<DomElement("div", "", <<"card", "ng-x">>, "button", <<Leaf("a", "")>>),
                DomElement("nav", "", <<"a", "b", "c", "d">>, "", <<Leaf("a", ""), Leaf("p", "")>>)>>),
    DomElement("body", "", <<"js-x">>, "",
               <<DomElement("div", "", <<>>, "", <<Leaf("p", ""), Leaf("a", ""), Leaf("p", "")>>),
                 Leaf("p", "")>>) }

SelectorInit ==
  /\ CtlInit
  /\ PatchIdle
  /\ LlmIdle
  /\ CacheIdle
  /\ MessageIdle
  /\ CopyIdle
  /\ ExtraIdle
  /\ capturedDocument \in CapturedDocuments
  /\ serialized = {}
  /\ resolved = {}

\* serializeElement reaches one more element and computes its selector
SerializeElement ==
  /\ \E path \in PathsOf(capturedDocument) :
       /\ \A s \in serialized : s.path # path
       /\ serialized' = serialized \cup
            {[path |-> path, selector |-> computeRobustSelector(capturedDocument, path)]}
  /\ UNCHANGED <<ctlVars, patchVars, llmVars, cacheVars, messageVars, copyVars, extraVars,
                 capturedDocument, resolved>>

\* a selector of a descriptor is resolved in the captured document
ResolveSelector ==
  /\ \E s \in serialized :
       /\ \A r \in resolved : r.path # s.path
       /\ resolved' = resolved \cup
            {[path |-> s.path, matches |-> querySelectorAll(capturedDocument, s.selector)]}
  /\ UNCHANGED <<ctlVars, patchVars, llmVars, cacheVars, messageVars, copyVars, extraVars,
                 capturedDocument, serialized>>

SelectorNext == SerializeElement \/ ResolveSelector

SpecSelector == SelectorInit /\ [][SelectorNext]_vars

\* ------------------------------------------- local filters: preTrimDom
\* A node of the DOM JSON as serializeElement builds it. text is kept as
\* what isImportantText looks at: the length of the trimmed text, whether it
\* holds one of the important keywords, whether it is one of the action
\* words, and whether it is made of digits and punctuation only. children
\* is always an array.
TextOf(chars, keyword, action, numeric) ==
  [chars |-> chars, keyword |-> keyword, action |-> action, numeric |-> numeric]
NoText == TextOf(0, FALSE, FALSE, FALSE)

interactiveTags == {"button", "a", "input", "select", "textarea", "form"}
interactiveRoles == {"button", "link", "textbox", "combobox", "checkbox", "radio", "menuitem"}
navTags == {"nav", "header", "footer"}
navRoles == {"navigation", "banner", "contentinfo", "main", "complementary"}

\* serializeElement(element): handlers stands for onclick, tabindex,
\* data-action and data-toggle; the selector is given by the caller
JsonNode(tag, role, target, text, handlers, children) ==
  [tag |-> tag, role |-> role, href |-> target, text |-> text, selector |-> "",
   isInteractive |-> tag \in interactiveTags \/ role \in interactiveRoles \/ handlers,
   isNavigationCandidate |-> tag \in navTags \/ role \in navRoles,
   children |-> children]

RECURSIVE WithSelectors(_, _)
\* every node gets a selector of its own
WithSelectors(node, selector) ==
  [node EXCEPT !.selector = selector,
               !.children = [i \in 1..Len(node.children) |->
                               WithSelectors(node.children[i], selector \o "." \o ToString(i))]]

NoNode == [tag |-> "#null"]

RECURSIVE FirstBody(_, _)
RECURSIVE findBodyElement(_)
\* the for loop of findBodyElement over children i, i + 1, ...
FirstBody(children, i) ==
  IF i > Len(children) THEN NoNode
  ELSE IF findBodyElement(children[i]) # NoNode THEN findBodyElement(children[i])
  ELSE FirstBody(children, i + 1)
findBodyElement(domJson) ==
  IF domJson.tag = "body" THEN domJson ELSE FirstBody(domJson.children, 1)

headingTags == {"h1", "h2", "h3", "h4", "h5", "h6"}
isImportantText(node) ==
  IF node.tag \in {"style", "script", "meta", "link"} THEN FALSE
  ELSE IF node.tag \in headingTags THEN TRUE
  ELSE IF node.tag = "label" THEN TRUE
  ELSE /\ node.text.chars > 2
       /\ \/ node.text.keyword
          \/ node.text.chars <= 20 /\ node.text.action
          \/ node.text.chars >= 5 /\ node.text.chars <= 100 /\ ~node.text.numeric

excludeTags == {"style", "script", "meta", "link", "title", "head", "html", "body"}
functionalRoles == {"button", "link", "search", "navigation", "combobox", "textbox"}

\* isFunctionalElement without its test of excludeTags
isFunctionalElement_NoExclusion(node) ==
  IF node.tag = "" THEN FALSE
  ELSE \/ node.tag \in {"input", "textarea", "select"}
       \/ node.tag = "button"
       \/ node.tag = "a" /\ node.href \notin {"", "#"}
       \/ node.tag = "form"
       \/ node.role \in functionalRoles
       \/ isImportantText(node)
       \/ node.tag = "nav" \/ node.role = "navigation"
       \/ node.tag \in {"span", "div"} /\ node.role = "button" /\ node.text.chars > 0

isFunctionalElement(node) ==
  IF node.tag = "" THEN FALSE
  ELSE IF node.tag \in excludeTags THEN FALSE
  ELSE \/ node.tag \in {"input", "textarea", "select"}
       \/ node.tag = "button"
       \/ node.tag = "a" /\ node.href \notin {"", "#"}
       \/ node.tag = "form"
       \/ node.role \in functionalRoles
       \/ isImportantText(node)
       \/ node.tag = "nav" \/ node.role = "navigation"
       \/ node.tag \in {"span", "div"} /\ node.role = "button" /\ node.text.chars > 0

RECURSIVE extractFunctionalElements(_)
RECURSIVE ExtractFrom(_, _)
\* the for loop of extractFunctionalElements over children i, i + 1, ...
ExtractFrom(children, i) ==
  IF i > Len(children) THEN <<>>
  ELSE (IF isFunctionalElement(children[i])
        THEN <<[children[i] EXCEPT !.children = <<>>]>> ELSE <<>>)
       \o extractFunctionalElements(children[i])
       \o ExtractFrom(children, i + 1)
\* what extractFunctionalElements(node, functionalElements) pushes
extractFunctionalElements(node) == ExtractFrom(node.children, 1)

\* keysToKeep, of the fields the model carries
KeptKeys(element) ==
  [tag |-> element.tag, text |-> element.text, selector |-> element.selector,
   isInteractive |-> element.isInteractive,
   isNavigationCandidate |-> element.isNavigationCandidate]

preTrimDom(domJson) ==
  LET bodyElement == findBodyElement(domJson)
  IN  IF bodyElement = NoNode THEN <<>>
      ELSE LET functionalElements == extractFunctionalElements(bodyElement)
           IN  [i \in 1..Len(functionalElements) |-> KeptKeys(functionalElements[i])]

\* ---------------------------- local filters: localFilterImportantElements
structuralTags == {"html", "body", "main", "section", "article", "header", "nav", "footer"}

RECURSIVE filterNode_OwnFlagsOnly(_)
\* filterNode without its second rule, that a node with kept children is kept
filterNode_OwnFlagsOnly(node) ==
  LET mapped == [i \in 1..Len(node.children) |-> filterNode_OwnFlagsOnly(node.children[i])]
      filteredChildren == SelectSeq(mapped, LAMBDA c : c # NoNode)
  IN  IF node.isInteractive \/ node.isNavigationCandidate
      THEN [node EXCEPT !.children = filteredChildren]
      ELSE IF node.tag \in structuralTags THEN [node EXCEPT !.children = filteredChildren]
      ELSE NoNode

RECURSIVE filterNode(_)
\* the closure filterNode of localFilterImportantElements; .filter(Boolean)
\* drops the nulls
filterNode(node) ==
  LET mapped == [i \in 1..Len(node.children) |-> filterNode(node.children[i])]
      filteredChildren == SelectSeq(mapped, LAMBDA c : c # NoNode)
  IN  IF node.isInteractive \/ node.isNavigationCandidate
      THEN [node EXCEPT !.children = filteredChildren]
      ELSE IF Len(filteredChildren) > 0 THEN [node EXCEPT !.children = filteredChildren]
      ELSE IF node.tag \in structuralTags THEN [node EXCEPT !.children = filteredChildren]
      ELSE NoNode

\* localFilterImportantElements with a filterNode that keeps no node for its
\* children
localFilterImportantElements_OwnFlagsOnly(domJson) == filterNode_OwnFlagsOnly(domJson)

localFilterImportantElements(domJson) == filterNode(domJson)

\* ---- the documents tried
Plain(tag, children) == JsonNode(tag, "", "", NoText, FALSE, children)
TextInput == Plain("input", <<>>)
GoButton == JsonNode("button", "", "", TextOf(2, FALSE, FALSE, FALSE), FALSE, <<>>)
Subtrees ==
  { Plain("div", <<Plain("div", <<TextInput, GoButton>>)>>),
    Plain("form", <<TextInput, Plain("label", <<>>), GoButton>>),
    Plain("nav", <<JsonNode("a", "", "#", NoText, FALSE, <<>>),
                   JsonNode("a", "", "/home", TextOf(4, TRUE, FALSE, FALSE), FALSE, <<>>)>>),
    Plain("div", <<JsonNode("script", "button", "", TextOf(6, TRUE, FALSE, FALSE), FALSE, <<>>),
                   JsonNode("link", "link", "/x.css", NoText, FALSE, <<>>),
                   JsonNode("style", "", "", TextOf(50, FALSE, FALSE, FALSE), TRUE, <<>>)>>),
    Plain("section", <<Plain("h2", <<>>),
                       JsonNode("p", "", "", TextOf(40, FALSE, FALSE, FALSE), FALSE, <<>>),
                       JsonNode("p", "", "", TextOf(150, FALSE, FALSE, FALSE), FALSE, <<>>),
                       JsonNode("span", "", "", TextOf(5, FALSE, FALSE, TRUE), FALSE, <<>>)>>),
    Plain("div", <<JsonNode("span", "", "", TextOf(3, FALSE, TRUE, FALSE), FALSE, <<>>),
                   JsonNode("div", "search", "", NoText, FALSE, <<Plain("p", <<>>)>>),
                   JsonNode("div", "", "", TextOf(4, FALSE, FALSE, FALSE), TRUE, <<>>)>>),
    Plain("main", <<>>),
    Plain("div", <<Plain("p", <<>>)>>),
    Plain("title", <<>>),
    Plain("", <<GoButton>>) }
HeadNode == Plain("head", <<JsonNode("title", "", "", TextOf(10, FALSE, FALSE, FALSE), FALSE, <<>>),
                            JsonNode("link", "", "/x.css", NoText, FALSE, <<>>)>>)
DomJsons ==
  { WithSelectors(Plain("html", <<HeadNode, Plain("body", <<x, y>>)>>), "html") : x, y \in Subtrees }
  \cup { WithSelectors(Plain("body", <<x>>), "body") : x \in Subtrees }
  \cup { WithSelectors(Plain("div", <<x>>), "div") : x \in Subtrees }

FilterInit ==
  /\ CtlInit
  /\ PatchIdle
  /\ LlmIdle
  /\ CacheIdle
  /\ MessageIdle
  /\ SurfaceIdle
  /\ MoreIdle
  /\ fullDomJson \in DomJsons
  /\ preTrimmedElements = NotTrimmed
  /\ locallyFiltered = NotFiltered

\* this.preTrimDom(fullDomJson)
PreTrimCall ==
  /\ preTrimmedElements = NotTrimmed
  /\ preTrimmedElements' = [done |-> TRUE, elements |-> preTrimDom(fullDomJson)]
  /\ UNCHANGED <<ctlVars, patchVars, llmVars, cacheVars, messageVars, surfaceVars, moreVars,
                 fullDomJson, locallyFiltered>>

\* this.localFilterImportantElements(domJson)
LocalFilterCall ==
  /\ locallyFiltered = NotFiltered
  /\ locallyFiltered' = [done |-> TRUE, tree |-> localFilterImportantElements(fullDomJson)]
  /\ UNCHANGED <<ctlVars, patchVars, llmVars, cacheVars, messageVars, surfaceVars, moreVars,
                 fullDomJson, preTrimmedElements>>

FilterNext == PreTrimCall \/ LocalFilterCall

SpecFilter == FilterInit /\ [][FilterNext]_vars


\* --------------------------------------------------------- mock generator
MaxStep == 3
MaxAttempts == 4

MOCK_AMAZON_PURCHASE_INTENT == "I want to buy a pink backpack for children"
MockIntents == {MOCK_AMAZON_PURCHASE_INTENT, "I want to look through my past orders on amazon"}
\* the number 1 that the catch block passes in the place of the intent
One == "#1"

\* `mock_amazon_purchase${step}.html` or `mock_amazon${step}.html`
mockFileName(intent, step) ==
  [purchase |-> intent = MOCK_AMAZON_PURCHASE_INTENT, step |-> step]

\* the first lines of loadMockHTML(intent, step): the file is named and its
\* fetch awaited
loadMockHTML(intent, step, attempts) ==
  [pc |-> "fetching", intent |-> intent, step |-> step,
   file |-> mockFileName(intent, step), attempts |-> attempts]

MockRest == <<ctlVars, patchVars, llmVars, cacheVars, messageVars, surfaceVars, filterVars,
              generatorVars, timerVars, popupVars, replacerVars>>

MockInit ==
  /\ CtlInit
  /\ PatchIdle
  /\ LlmIdle
  /\ CacheIdle
  /\ MessageIdle
  /\ SurfaceIdle
  /\ FilterIdle
  /\ MockIdle
  /\ GeneratorIdle
  /\ TimerIdle
  /\ PopupIdle
  /\ ReplacerIdle

incrementMockStep ==
  /\ mockStep < MaxStep
  /\ mockStep' = mockStep + 1
  /\ UNCHANGED <<mockCall, mockResult, MockRest>>

resetMockStep ==
  /\ mockStep' = 1
  /\ UNCHANGED <<mockCall, mockResult, MockRest>>

\* generatePageHTML(originalDOM, intent, old_html) up to the await of the fetch
MockGenerateCall(intent) ==
  /\ mockCall = NoMockCall
  /\ mockCall' = loadMockHTML(intent, mockStep, 1)
  /\ UNCHANGED <<mockStep, mockResult, MockRest>>

\* the fetch answers with an ok response: the text of the file is returned
MockFetchSucceeds ==
  /\ mockCall.pc = "fetching"
  /\ mockResult' = [kind |-> "mock", file |-> mockCall.file]
  /\ mockCall' = NoMockCall
  /\ UNCHANGED <<mockStep, MockRest>>

\* the fetch rejects or answers not ok: the catch block of loadMockHTML calls
\* loadMockHTML(1) when step is not 1, where 1 binds to intent and step takes
\* its default, the step counter; with step 1 the error reaches
\* generatePageHTML, which returns the fallback document
MockFetchFails ==
  /\ mockCall.pc = "fetching"
  /\ IF mockCall.step # 1
     THEN /\ mockCall.attempts < MaxAttempts
          /\ mockCall' = loadMockHTML(One, mockStep, mockCall.attempts + 1)
          /\ UNCHANGED mockResult
     ELSE /\ mockCall' = NoMockCall
          /\ mockResult' = [kind |-> "fallback"]
  /\ UNCHANGED <<mockStep, MockRest>>

MockNext ==
  \/ incrementMockStep
  \/ resetMockStep
  \/ \E intent \in MockIntents : MockGenerateCall(intent)
  \/ MockFetchSucceeds
  \/ MockFetchFails

SpecMock == MockInit /\ [][MockNext]_vars


\* --------------------------------------------------------- page generator
MaxRuns == 3

\* `${window.location.href}_${intent || 'default'}`
cacheKey(url, intent) == <<url, IF intent = "" THEN "default" ELSE intent>>

GeneratorRest == <<ctlVars, patchVars, llmVars, cacheVars, messageVars, surfaceVars, filterVars,
                   mockVars, timerVars, popupVars, replacerVars>>

GeneratorInit ==
  /\ CtlInit
  /\ PatchIdle
  /\ LlmIdle
  /\ CacheIdle
  /\ MessageIdle
  /\ SurfaceIdle
  /\ FilterIdle
  /\ MockIdle
  /\ GeneratorIdle
  /\ TimerIdle
  /\ PopupIdle
  /\ ReplacerIdle

\* the script that defines window.LLMPatch has run
LLMPatchLoads ==
  /\ ~llmPatchLoaded
  /\ llmPatchLoaded' = TRUE
  /\ UNCHANGED <<generatorCache, generatorCalls, pipelineRuns, generatorReturned, GeneratorRest>>

\* contentCache.set(cacheKey, content); return content
CacheAndReturn(key, content) ==
  /\ generatorCache' = [generatorCache EXCEPT ![key] = content]
  /\ generatorReturned' = [kind |-> content, key |-> key, cached |-> FALSE]

\* generatePageHTML(originalDOM, intent, old_html) up to its first await
generatePageHTML(url, intent) ==
  LET key == cacheKey(url, intent)
  IN  /\ IF generatorCache[key] # NotCached
         THEN /\ generatorReturned' = [kind |-> generatorCache[key], key |-> key, cached |-> TRUE]
              /\ UNCHANGED <<generatorCache, generatorCalls, pipelineRuns>>
         ELSE IF ~llmPatchLoaded
         THEN /\ CacheAndReturn(key, "fallback")
              /\ UNCHANGED <<generatorCalls, pipelineRuns>>
         ELSE /\ pipelineRuns < MaxRuns
              /\ pipelineRuns' = pipelineRuns + 1
              /\ generatorCalls' = generatorCalls \cup
                   {[run |-> pipelineRuns + 1, key |-> key, pc |-> "selecting"]}
              /\ UNCHANGED <<generatorCache, generatorReturned>>
      /\ UNCHANGED <<llmPatchLoaded, GeneratorRest>>

\* selectRelevantDomElements resolved, the copies were made and assembled
PipelineSucceeds(c) ==
  /\ c.pc = "selecting"
  /\ CacheAndReturn(c.key, "assembled")
  /\ generatorCalls' = generatorCalls \ {c}
  /\ UNCHANGED <<pipelineRuns, llmPatchLoaded, GeneratorRest>>

\* an error anywhere in the pipeline: the catch block awaits loadBaseTemplate
PipelineFails(c) ==
  /\ c.pc = "selecting"
  /\ generatorCalls' = (generatorCalls \ {c}) \cup {[c EXCEPT !.pc = "template"]}
  /\ UNCHANGED <<generatorCache, pipelineRuns, llmPatchLoaded, generatorReturned, GeneratorRest>>

\* loadBaseTemplate resolved
TemplateLoads(c) ==
  /\ c.pc = "template"
  /\ CacheAndReturn(c.key, "template")
  /\ generatorCalls' = generatorCalls \ {c}
  /\ UNCHANGED <<pipelineRuns, llmPatchLoaded, GeneratorRest>>

\* loadBaseTemplate rejected: generateFallbackHTML
TemplateFails(c) ==
  /\ c.pc = "template"
  /\ CacheAndReturn(c.key, "fallback")
  /\ generatorCalls' = generatorCalls \ {c}
  /\ UNCHANGED <<pipelineRuns, llmPatchLoaded, GeneratorRest>>

GeneratorNext ==
  \/ LLMPatchLoads
  \/ \E url \in {"u1", "u2"}, intent \in PageIntents : generatePageHTML(url, intent)
  \/ \E c \in generatorCalls : PipelineSucceeds(c)
  \/ \E c \in generatorCalls : PipelineFails(c)
  \/ \E c \in generatorCalls : TemplateLoads(c)
  \/ \E c \in generatorCalls : TemplateFails(c)

SpecGenerate == GeneratorInit /\ [][GeneratorNext]_vars


\* ---------------------------------------------------------- polling timers
MaxIntervals == 3

TimerRest == <<patchVars, llmVars, cacheVars, surfaceVars, filterVars, mockVars, generatorVars,
               popupVars, replacerVars>>

TimerInit ==
  /\ CtlInit
  /\ PatchIdle
  /\ LlmIdle
  /\ CacheIdle
  /\ MessageIdle
  /\ SurfaceIdle
  /\ FilterIdle
  /\ MockIdle
  /\ GeneratorIdle
  /\ TimerIdle
  /\ PopupIdle
  /\ ReplacerIdle

\* the 'setMode' message with the timers that setMode clears and starts:
\* disableUrlSync() clears the timers its two fields hold when urlSyncEnabled
\* is set; syncIframeUrl() runs at once when the document is cached, assigns
\* the iframe's src and onload, and enableUrlSync() starts a timer
TimerModeRequest(mode) ==
  LET switches == currentMode # mode
      cleared == switches /\ urlSyncEnabled
      entersNow == /\ switches
                   /\ mode = "side-by-side"
                   /\ contentCache[CacheKey(currentIntent)] # NoContent
  IN  /\ entersNow => mainIntervals < MaxIntervals
      /\ listenerSetMode(mode, "undefined")
      /\ mainIntervals' = (IF cleared /\ urlCheckInterval THEN mainIntervals - 1 ELSE mainIntervals)
                          + (IF entersNow THEN 1 ELSE 0)
      /\ iframeIntervals' = IF cleared /\ iframeUrlCheckInterval
                            THEN iframeIntervals - 1 ELSE iframeIntervals
      /\ iframeUrlCheckInterval' = IF cleared THEN FALSE ELSE iframeUrlCheckInterval
      /\ iframeOnload' = (iframeOnload \/ entersNow)
      /\ pendingLoad' = (pendingLoad \/ entersNow)
      /\ UNCHANGED <<TimerRest, messageVars>>

\* an awaited generatePageHTML resolves; setSideBySideMode() goes on with
\* syncIframeUrl(), whose enableUrlSync() starts a timer unless urlSyncEnabled
TimerGenerationResolves ==
  \E t \in inflight :
    LET enters == t.kind = "side-by-side"
        starts == enters /\ ~urlSyncEnabled
    IN  /\ starts => mainIntervals < MaxIntervals
        /\ generationResolves(t)
        /\ mainIntervals' = IF starts THEN mainIntervals + 1 ELSE mainIntervals
        /\ iframeOnload' = (iframeOnload \/ enters)
        /\ pendingLoad' = (pendingLoad \/ enters)
        /\ UNCHANGED <<iframeIntervals, iframeUrlCheckInterval, TimerRest, messageVars>>

\* the user follows a link inside the visible iframe
IframeNavigates(u) ==
  /\ "hidden" \notin classList["originalIframe"]
  /\ u # iframeSrc
  /\ iframeSrc' = u
  /\ pendingLoad' = TRUE
  /\ UNCHANGED <<currentMode, classList, generatedHtml, surface, currentIntent,
                 urlSyncEnabled, urlCheckInterval, href, lastUrl, contentCache, inflight,
                 requestCount, urlRegenTimers, overlapped, mainIntervals, iframeIntervals,
                 iframeUrlCheckInterval, iframeOnload, TimerRest, messageVars>>

\* the iframe's load event: onload calls setupIframeNavigation(), which
\* starts a timer and stores it in this.iframeUrlCheckInterval
IframeLoads ==
  /\ pendingLoad
  /\ pendingLoad' = FALSE
  /\ IF iframeOnload
     THEN /\ iframeIntervals < MaxIntervals
          /\ iframeIntervals' = iframeIntervals + 1
          /\ iframeUrlCheckInterval' = TRUE
     ELSE UNCHANGED <<iframeIntervals, iframeUrlCheckInterval>>
  /\ UNCHANGED <<ctlVars, mainIntervals, iframeOnload, TimerRest, messageVars>>

\* a running timer of setupIframeNavigation sees the iframe at a new address
TimerNavigationSeen ==
  /\ iframeIntervals > 0
  /\ IframeNavigationSeen

TimerNext ==
  \/ \E m \in Modes : TimerModeRequest(m)
  \/ TimerGenerationResolves
  \/ \E u \in Urls : IframeNavigates(u)
  \/ IframeLoads
  \/ TimerNavigationSeen
  \/ SyncRestoreFires
  \/ PushedUrlCheckTick
  \/ UrlRegenTimerFires

SpecTimer == TimerInit /\ [][TimerNext]_vars


\* ------------------------------------------------------------------ popup
MaxPopupCalls == 2
MaxRetryTimers == 1

PopupRest == <<patchVars, llmVars, cacheVars, messageVars, surfaceVars, filterVars, mockVars,
               generatorVars, timerVars, replacerVars>>

PopupInit ==
  /\ CtlInit
  /\ PatchIdle
  /\ LlmIdle
  /\ CacheIdle
  /\ MessageIdle
  /\ SurfaceIdle
  /\ FilterIdle
  /\ MockIdle
  /\ GeneratorIdle
  /\ TimerIdle
  /\ PopupIdle
  /\ ReplacerIdle

\* how far a setMode call of the popup has come: it awaits tabs.query, its
\* message is on the way, or the content script has answered
Stage(c) == CASE c.pc = "query" -> 1 [] c.pc = "sent" -> 2 [] OTHER -> 3

\* calls and messages are served in the order they were made
MayAdvance(i) == IF i = 1 THEN TRUE ELSE Stage(popupCalls[i - 1]) > Stage(popupCalls[i])

Without(calls, i) == SubSeq(calls, 1, i - 1) \o SubSeq(calls, i + 1, Len(calls))

\* PopupController.setMode(mode) up to the await of tabs.query
popupSetMode(mode) ==
  /\ Len(popupCalls) < MaxPopupCalls
  /\ loading' = TRUE
  /\ popupCalls' = Append(popupCalls, [mode |-> mode, pc |-> "query", intent |-> Unset])

\* a mode button is clicked; the buttons are disabled while loading
ClickMode(mode) ==
  /\ ~loading
  /\ popupSetMode(mode)
  /\ UNCHANGED <<ctlVars, popupMode, popupIntent, localStore, retryTimers, PopupRest>>

\* the setTimeout callback of the catch block: this.setMode('normal')
RetryTimerFires ==
  /\ retryTimers > 0
  /\ retryTimers' = retryTimers - 1
  /\ popupSetMode("normal")
  /\ UNCHANGED <<ctlVars, popupMode, popupIntent, localStore, PopupRest>>

\* tabs.query resolves: the message is sent with the popup's intent
PopupSends(i) ==
  /\ popupCalls[i].pc = "query"
  /\ MayAdvance(i)
  /\ popupCalls' = [popupCalls EXCEPT ![i] = [@ EXCEPT !.pc = "sent", !.intent = popupIntent]]
  /\ UNCHANGED <<ctlVars, popupMode, popupIntent, localStore, retryTimers, loading, PopupRest>>

\* the content script's listener handles the message and answers
PopupMessageDelivered(i) ==
  /\ popupCalls[i].pc = "sent"
  /\ MayAdvance(i)
  /\ listenerSetMode(popupCalls[i].mode, popupCalls[i].intent)
  /\ popupCalls' = [popupCalls EXCEPT ![i] = [@ EXCEPT !.pc = "answered"]]
  /\ UNCHANGED <<popupMode, popupIntent, localStore, retryTimers, loading, PopupRest>>

\* the answer arrives: the mode is taken over and the state saved
PopupResumes ==
  /\ popupCalls # <<>>
  /\ popupCalls[1].pc = "answered"
  /\ popupMode' = popupCalls[1].mode
  /\ localStore' = [currentMode |-> popupCalls[1].mode, currentIntent |-> popupIntent]
  /\ loading' = FALSE
  /\ popupCalls' = Tail(popupCalls)
  /\ UNCHANGED <<ctlVars, popupIntent, retryTimers, PopupRest>>

\* tabs.query or tabs.sendMessage rejects (no content script in the tab):
\* the catch block starts the retry timer
PopupMessageFails(i) ==
  /\ popupCalls[i].pc \in {"query", "sent"}
  /\ retryTimers < MaxRetryTimers
  /\ retryTimers' = retryTimers + 1
  /\ loading' = FALSE
  /\ popupCalls' = Without(popupCalls, i)
  /\ UNCHANGED <<ctlVars, popupMode, popupIntent, localStore, PopupRest>>

\* the 'input' listener of the intent field -> updateIntent(); the field is
\* disabled while loading
updateIntent(value) ==
  /\ ~loading
  /\ value # popupIntent
  /\ popupIntent' = value
  /\ localStore' = [localStore EXCEPT !.currentIntent = value]
  /\ UNCHANGED <<ctlVars, popupMode, popupCalls, retryTimers, loading, PopupRest>>

PopupNext ==
  \/ \E m \in Modes : ClickMode(m)
  \/ RetryTimerFires
  \/ \E i \in 1..Len(popupCalls) : PopupSends(i)
  \/ \E i \in 1..Len(popupCalls) : PopupMessageDelivered(i)
  \/ PopupResumes
  \/ \E i \in 1..Len(popupCalls) : PopupMessageFails(i)
  \/ \E value \in Intents : updateIntent(value)
  \/ CompleteSomeGeneration

SpecPopup == PopupInit /\ [][PopupNext]_vars


\* ----------------------------------------------------------- page replacer
MaxHosts == 3

ReplacerRest == <<ctlVars, patchVars, llmVars, cacheVars, messageVars, surfaceVars, filterVars,
                  mockVars, generatorVars, timerVars, popupVars>>

ReplacerInit ==
  /\ CtlInit
  /\ PatchIdle
  /\ LlmIdle
  /\ CacheIdle
  /\ MessageIdle
  /\ SurfaceIdle
  /\ FilterIdle
  /\ MockIdle
  /\ GeneratorIdle
  /\ TimerIdle
  /\ PopupIdle
  /\ ReplacerIdle

\* a host element: attached to the document or not, style.display other than
\* 'none' or not, and whether renderSimplified has filled its shadow root
Host(inDocument, displayed, rendered) ==
  [inDocument |-> inDocument, displayed |-> displayed, rendered |-> rendered]

\* the elements with id __replacer_host__ in the document
HostsInDocument == {h \in 1..Len(hosts) : hosts[h].inDocument}

\* the buttons of the rendered overlay can be clicked
OverlayButtons == \E h \in HostsInDocument : hosts[h].rendered /\ hosts[h].displayed

\* showOriginal()
showOriginal ==
  IF ~mounted
  THEN UNCHANGED replacerVars
  ELSE /\ showing' = FALSE
       /\ replacerActive' = FALSE
       /\ hosts' = [hosts EXCEPT ![stateHost].displayed = FALSE]
       /\ UNCHANGED <<mounted, stateHost, mounts, rendererCalls>>

\* mountOverlay() up to the await of the import: the host is created and
\* appended and the attribute set; STATE is not written yet
mountOverlay ==
  /\ Len(hosts) < MaxHosts
  /\ hosts' = Append(hosts, Host(TRUE, TRUE, FALSE))
  /\ replacerActive' = TRUE
  /\ mounts' = mounts \cup {Len(hosts) + 1}
  /\ UNCHANGED <<mounted, showing, stateHost, rendererCalls>>

\* showSimplified(): doShow() up to its first await, or to its end when the
\* overlay is mounted
showSimplified ==
  IF ~mounted
  THEN mountOverlay
  ELSE /\ hosts' = [hosts EXCEPT ![stateHost].displayed = TRUE]
       /\ replacerActive' = TRUE
       /\ showing' = TRUE
       /\ UNCHANGED <<mounted, stateHost, mounts, rendererCalls>>

\* the toolbar message and the Alt+R listener
Toggle ==
  /\ IF showing THEN showOriginal ELSE showSimplified
  /\ UNCHANGED ReplacerRest

\* the buttons of the rendered overlay: api.showOriginal, api.showSimplified
ApiShowOriginal ==
  /\ OverlayButtons
  /\ showOriginal
  /\ UNCHANGED ReplacerRest

ApiShowSimplified ==
  /\ OverlayButtons
  /\ showSimplified
  /\ UNCHANGED ReplacerRest

\* teardown(), from the close button of the rendered overlay
Teardown ==
  /\ OverlayButtons
  /\ hosts' = IF stateHost = 0 THEN hosts ELSE [hosts EXCEPT ![stateHost].inDocument = FALSE]
  /\ replacerActive' = FALSE
  /\ mounted' = FALSE
  /\ showing' = FALSE
  /\ stateHost' = 0
  /\ rendererCalls' = 0
  /\ UNCHANGED <<mounts, ReplacerRest>>

\* the import settles for the mount of host h: renderSimplified runs (or the
\* catch block writes its notice), STATE is written, and doShow() goes on
MountCompletes(h, imported) ==
  /\ h \in mounts
  /\ mounts' = mounts \ {h}
  /\ rendererCalls' = IF imported THEN rendererCalls + 1 ELSE rendererCalls
  /\ mounted' = TRUE
  /\ showing' = TRUE
  /\ stateHost' = h
  /\ hosts' = [hosts EXCEPT ![h].rendered = imported, ![h].displayed = TRUE]
  /\ replacerActive' = TRUE
  /\ UNCHANGED ReplacerRest

ReplacerNext ==
  \/ Toggle
  \/ ApiShowOriginal
  \/ ApiShowSimplified
  \/ Teardown
  \/ \E h \in mounts, imported \in BOOLEAN : MountCompletes(h, imported)

SpecReplacer == ReplacerInit /\ [][ReplacerNext]_vars

TypeOK ==
  /\ currentMode \in Modes
  /\ \A n \in Nodes : classList[n] \subseteq {"hidden", "hidden-by-extension", "side-by-side-mode",
                                              "overlay-mode", "side-by-side-active", "overlay-active"}
  /\ requestCount \in 0..MaxRequests
  /\ urlRegenTimers \in 0..MaxTimers

\* ------------------------------------------------------ controller claims
Hidden(n) == "hidden" \in classList[n]
OriginalsHidden == \A e \in OriginalElements : "hidden-by-extension" \in classList[e]
OriginalsShown == \A e \in OriginalElements : "hidden-by-extension" \notin classList[e]

\* C1: whenever no mode transition is in flight, currentMode is one of the
\* three modes and the page shows that mode's effects: in normal no original
\* element is hidden and the surface, the side bar and the iframe are hidden;
\* in side-by-side and overlay the originals are hidden and the surface shown.
C1_ModeEffectsShown ==
  Transitions = {} =>
    /\ currentMode \in Modes
    /\ currentMode = "normal" =>
         /\ OriginalsShown
         /\ Hidden("generatedContentDiv")
         /\ Hidden("sideBarContainer")
         /\ Hidden("originalIframe")
    /\ currentMode # "normal" => OriginalsHidden /\ ~Hidden("generatedContentDiv")

\* C2: a generation that completes after a newer generation was requested is
\* discarded: it changes neither generatedHtml nor the surface nor any class.
C2_StaleResultDiscarded ==
  [][\A t \in inflight :
       (t \notin inflight' /\ t.token < requestCount) =>
         (generatedHtml' = generatedHtml /\ surface' = surface /\ classList' = classList)]_vars

\* C3: a setMode request for the mode that is already current changes neither
\* the mode, nor any class, nor the iframe source, nor generatedHtml or the
\* surface, and starts no generation, also while the first transition to that
\* mode is still awaiting its generation.
C3_SameModeIsNoop ==
  [][\A m \in RequestedModes, i \in Intents \cup {"undefined"} :
       (currentMode = m /\ SetModeRequest(m, i)) =>
         UNCHANGED <<currentMode, classList, iframeSrc, generatedHtml, surface, inflight,
                     requestCount, contentCache, urlSyncEnabled, urlCheckInterval>>]_vars

\* C3 witness: the first transition to overlay is still awaiting its
\* generation; a repeated setMode('overlay') leaves exactly this state
C3_Witness ==
  /\ currentMode = "overlay"
  /\ \E t \in Transitions : t.kind = "overlay"
  /\ OriginalsShown
  /\ Hidden("generatedContentDiv")

\* the class lists after entering mode m directly from the state after setup
DirectClasses(m) ==
  IF m = "normal" THEN InitialClasses
  ELSE EntryEffects(m, setNormalMode([cl |-> InitialClasses, src |-> "none", sync |-> FALSE,
                                      timer |-> FALSE, last |-> "u1"])).cl

\* C4: when every transition completed before the next setMode request, the
\* class lists depend on the final mode only: they are those of entering the
\* mode from the state after setup.  Back in normal nothing is left hidden,
\* and after side-by-side -> overlay the iframe is hidden and no side-by-side
\* class remains.
C4_ClassesDependOnModeOnly ==
  (~overlapped /\ Transitions = {}) =>
    /\ classList = DirectClasses(currentMode)
    /\ currentMode = "normal" => classList = InitialClasses /\ OriginalsShown
    /\ currentMode = "overlay" =>
         /\ Hidden("originalIframe")
         /\ "side-by-side-mode" \notin classList["generatedContentDiv"]
         /\ "side-by-side-active" \notin classList["body"]

\* C4 witness: overlay was entered after side-by-side (the iframe source is
\* only ever set on entering side-by-side), every transition in turn
C4_Witness ==
  /\ ~overlapped
  /\ Transitions = {}
  /\ currentMode = "overlay"
  /\ iframeSrc # "none"
  /\ "overlay-mode" \in classList["generatedContentDiv"]

\* C5: at most one generation is in progress at any time.
C5_OneGenerationAtATime == Cardinality(inflight) <= 1

TransitionGenerated ==
  \/ \E t \in Transitions : t \notin inflight'
  \/ /\ currentMode' \in {"side-by-side", "overlay"}
     /\ currentMode' # currentMode
     /\ inflight' = inflight
HidesOriginal ==
  \E e \in OriginalElements :
    "hidden-by-extension" \in classList'[e] /\ "hidden-by-extension" \notin classList[e]
ShowsSurface == Hidden("generatedContentDiv") /\ "hidden" \notin classList'["generatedContentDiv"]

Returned == pc = "returned"
IsReplaceFullDocument(operation) == operation.op = "replaceFullDocument"
ReplaceFullDocuments(operations) ==
  {i \in 1..Len(operations) : IsReplaceFullDocument(operations[i])}

\* C7: when the patch contains a replaceFullDocument operation at any
\* position, applyHtmlPatch returns exactly the html of the first one, also
\* when that html is the empty string.
C7_FirstFullDocumentWins ==
  (Returned /\ patch.iterable /\ ReplaceFullDocuments(patch.operations) # {}) =>
    result = patch.operations[Min(ReplaceFullDocuments(patch.operations))].html

\* the document in front of operation i, and whether i finds no target in it
DocBefore(i) == ApplyOperations(parseFromString(oldHtml), SubSeq(patch.operations, 1, i - 1)).doc
TargetMissing(i) ==
  /\ patch.operations[i].op \in SelectorOps
  /\ ~InvalidSelector(patch.operations[i].selector)
  /\ querySelector(DocBefore(i), patch.operations[i].selector) = NotFound
ReplacedB == Element("div", "b", <<TextB>>)

\* C8: without replaceFullDocument the result is that of applying the
\* operations one at a time in array order: applying the first operation and
\* then the remaining ones gives the same result, an operation whose target is
\* missing changes nothing (leaving it out gives the same result), and the
\* operations after it still take effect: [remove '#a', replace '#b'] with
\* '#a' absent replaces the content of '#b'.
C8_InOrderSkippingMissing ==
  (Returned /\ patch.iterable /\ ReplaceFullDocuments(patch.operations) = {}) =>
    /\ \A i \in 1..Len(patch.operations) :
         TargetMissing(i) =>
           result = applyHtmlPatch(oldHtml, WithOperations(RemoveIndex(patch.operations, i))).html
    /\ patch.operations # <<>> =>
         result = applyHtmlPatch(applyHtmlPatch(oldHtml, WithOperations(<<Head(patch.operations)>>)).html,
                                 WithOperations(Tail(patch.operations))).html
    /\ ( /\ patch.operations = <<Operation("remove", "#a", EmptyString, "", ""),
                                  Operation("replace", "#b", FragB, "", "")>>
         /\ querySelector(parseFromString(oldHtml), "#a") = NotFound
         /\ querySelector(parseFromString(oldHtml), "#b") # NotFound )
       => LET doc == parseFromString(result)
          IN  GetAt(doc.root, querySelector(doc, "#b")) = ReplacedB

\* C8 witness: '#a' is absent, the remove is skipped and '#b' holds B
C8_Witness ==
  /\ Returned
  /\ oldHtml = HtmlText(FALSE, "document", <<Body(<<DivB>>)>>)
  /\ patch.operations = <<Operation("remove", "#a", EmptyString, "", ""),
                          Operation("replace", "#b", FragB, "", "")>>
  /\ result = HtmlText(FALSE, "document", <<Body(<<ReplacedB>>)>>)

\* an operation that raises inside applyOperation: its selector is invalid
Raises(operation) == operation.op \in SelectorOps /\ InvalidSelector(operation.selector)
ExceptionRaised ==
  \/ ~patch.iterable
  \/ /\ FullReplaces(patch.operations) = {}
     /\ \E i \in 1..Len(patch.operations) : Raises(patch.operations[i])

\* C9 as stated: applyHtmlPatch never throws, and whenever an exception is
\* raised while the patch is processed it returns exactly oldHtml.
C9_AnyExceptionReturnsOldHtml ==
  pc # "called" => (Returned /\ (ExceptionRaised => result = oldHtml))

NotRaising(operation) == ~Raises(operation)

\* C9 amended: applyHtmlPatch never throws; it returns exactly oldHtml when
\* the operations list cannot be iterated; an exception raised inside an
\* operation is swallowed there, so the result is that of the patch without
\* the raising operations, not oldHtml.
C9_NeverThrowsSkipsRaisingOperation ==
  pc # "called" =>
    /\ Returned
    /\ ~patch.iterable => result = oldHtml
    /\ patch.iterable =>
         result = applyHtmlPatch(oldHtml, WithOperations(SelectSeq(patch.operations, NotRaising))).html

\* C9 witness: the second operation raised after the first one had changed
\* the document, and the changed document is returned
C9_Witness ==
  /\ Returned
  /\ oldHtml = HtmlText(FALSE, "document", <<Body(<<DivB>>)>>)
  /\ patch.operations = <<Operation("replace", "#b", FragB, "", ""),
                          Operation("remove", "[", EmptyString, "", "")>>
  /\ result = HtmlText(FALSE, "document", <<Body(<<ReplacedB>>)>>)

\* C10: applyHtmlPatch(oldHtml, {operations: []}) returns oldHtml unchanged,
\* also for a document that begins with a doctype declaration.
C10_EmptyPatchIsIdentity ==
  (Returned /\ patch.iterable /\ patch.operations = <<>>) => result = oldHtml

Reapplied == pc = "reapplied"
IdempotentOps == {"setAttribute", "removeAttribute", "remove"}

\* C11: for a patch made only of setAttribute, removeAttribute and remove
\* operations, applying the patch to its own result gives the same document
\* again, also when a remove selector matches more than one element.
C11_AttributeAndRemovePatchIdempotent ==
  ( /\ Reapplied
    /\ patch2 = patch
    /\ \A i \in 1..Len(patch.operations) : patch.operations[i].op \in IdempotentOps )
  => result2 = result

\* the element that the only operation of the first patch selects in oldHtml
FirstSelector == patch.operations[1].selector
FirstAttribute == patch.operations[1].attribute
SelectedPath == querySelector(parseFromString(oldHtml), FirstSelector)
SetThenRemove ==
  /\ Reapplied
  /\ Len(patch.operations) = 1 /\ patch.operations[1].op = "setAttribute"
  /\ patch2 = WithOperations(<<Operation("removeAttribute", FirstSelector, EmptyString,
                                         FirstAttribute, "")>>)
  /\ SelectedPath # NotFound
\* oldHtml with the attribute taken off the selected element, nothing else changed
WithoutAttribute ==
  LET doc == parseFromString(oldHtml)
  IN  outerHTML(Update(doc, SelectedPath,
                       [GetAt(doc.root, SelectedPath) EXCEPT !.attrs[FirstAttribute] = Absent]))

\* C12 as stated: for every selector s that matches an element, the patch
\* [setAttribute s a v] followed by the patch [removeAttribute s a] leaves
\* that element without a and changes nothing else of the original document.
C12_SetThenRemoveAttributeRoundTrip ==
  SetThenRemove => result2 = WithoutAttribute

\* the selector selects the same element after the attribute has been set
SelectsSameElement == querySelector(parseFromString(result), FirstSelector) = SelectedPath

\* C12 amended: the round trip holds when s selects the same element after
\* the setAttribute as before it (s does not test the value of a); when
\* setting a makes s select no element, the element keeps the value set.
C12_RoundTripWhenSelectorStable ==
  SetThenRemove =>
    /\ SelectsSameElement => result2 = WithoutAttribute
    /\ querySelector(parseFromString(result), FirstSelector) = NotFound
         => result2 = result

\* C12 witness: the element carried the attribute before the first patch,
\* and both patches have been applied
C12_Witness ==
  /\ SetThenRemove
  /\ SelectsSameElement
  /\ GetAt(parseFromString(oldHtml).root, SelectedPath).attrs[FirstAttribute] = "t"
  /\ result # result2

\* ----------------------------------------------------- LLM client claims
Request == requests[1]
ReturnedResponse(req) == req.pc = "returned" /\ req.response # Undefined

\* C14: one makeApiRequest call issues at most 3 HTTP requests, and when it
\* has completed it has either returned a response object or raised an
\* error; three 429 replies in a row end with an error raised, not with a
\* return that carries no response.
C14_AtMostThreeAttemptsThenResponseOrError ==
  /\ Len(Request.log) <= 3
  /\ Completed(Request) => (ReturnedResponse(Request) \/ Request.pc = "raised")
  /\ ( /\ Completed(Request)
       /\ Len(Request.log) = 3
       /\ \A k \in 1..3 : Request.log[k].http.status = 429 )
     => Request.pc = "raised"

\* C15: the wait before the retry that follows a 429 is the retry-after
\* seconds in milliseconds when the header is present, and 1000 * 2^attempt
\* otherwise; any other failure waits 1000 * 2^attempt; nothing is waited
\* for after the last attempt.
C15_RetryWaits ==
  \A k \in 1..Len(Request.log) :
    LET e == Request.log[k]
    IN  /\ e.attempt = maxRetries - 1 => e.wait = NoWait
        /\ (e.attempt < maxRetries - 1 /\ e.http.status = 429) =>
              e.wait = IF e.http.retryAfter # NoHeader
                       THEN parseInt(e.http.retryAfter) * 1000
                       ELSE 1000 * Pow2(e.attempt)
        /\ (e.attempt < maxRetries - 1 /\ e.http.status \notin {200, 429}) =>
              e.wait = 1000 * Pow2(e.attempt)

\* -------------------------------------------------- selection stage claims
RECURSIVE Concat(_)
Concat(seqs) == IF seqs = <<>> THEN <<>> ELSE Head(seqs) \o Concat(Tail(seqs))

\* C19: chunkElementsArray partitions its input: the chunks are non-empty,
\* their concatenation in order is the input array (so every element is in
\* exactly one chunk), there are never more than 3 chunks, and an input of
\* more than 50 elements gives 2 or 3 chunks.
C19_ChunksPartitionInput ==
  selPc = "chunked" =>
    /\ \A j \in 1..Len(chunks) : Len(chunks[j]) > 0
    /\ Concat(chunks) = elements
    /\ Len(chunks) <= 3
    /\ Len(elements) > 50 => Len(chunks) \in {2, 3}

\* C19 witness: more than 150 small elements have been cut into 3 chunks,
\* and many chunk-sized elements have been merged into 3 chunks
C19_Witness ==
  /\ selPc = "chunked"
  /\ Len(elements) > 150
  /\ Len(chunks) = 3
  /\ stringifyLength(elements[1]) = 100

\* what the chunks hand to the merge, in chunk order
Handed == AllFilteredElements(chunkResults)
FirstWith(selector) == CHOOSE i \in 1..Len(Handed) :
  /\ Handed[i].selector = selector
  /\ \A j \in 1..(i - 1) : Handed[j].selector # selector
FirstKept ==
  \A k \in 1..Len(filteredElements) :
    filteredElements[k].selector # "" =>
      filteredElements[k] = Handed[FirstWith(filteredElements[k].selector)]
AllSelectorsPresent ==
  \A i \in 1..Len(Handed) :
    \E k \in 1..Len(filteredElements) : filteredElements[k].selector = Handed[i].selector

\* C17 as stated: for every list of per-chunk results the merged array holds
\* no two descriptors with the same selector value, the descriptor kept for
\* a selector is the first one in chunk order, and every selector of some
\* chunk's filtered result is in the merged array.
C17_MergedSelectorsUnique ==
  selPc = "merged" =>
    /\ \A k, m \in 1..Len(filteredElements) :
         k # m => filteredElements[k].selector # filteredElements[m].selector
    /\ FirstKept
    /\ AllSelectorsPresent

Unselected(element) == element.selector = ""

\* C17 amended: no two descriptors of the merged array share a non-empty
\* selector, the one kept is the first in chunk order, every selector handed
\* in is present, and the descriptors whose selector is empty or missing are
\* all kept, duplicates included.
C17_MergedNonEmptySelectorsUnique ==
  selPc = "merged" =>
    /\ \A k, m \in 1..Len(filteredElements) :
         (k # m /\ filteredElements[k].selector # "")
           => filteredElements[k].selector # filteredElements[m].selector
    /\ FirstKept
    /\ AllSelectorsPresent
    /\ SelectSeq(filteredElements, Unselected) = SelectSeq(Handed, Unselected)

\* C17 witness: a successful and a failed chunk handed in the same selector
\* with different descriptors, and the merge has dropped the later one
C17_Witness ==
  /\ selPc = "merged"
  /\ Len(chunkResults) = 2
  /\ chunkResults[1].success /\ ~chunkResults[2].success
  /\ chunkResults[1].elements = <<DivS1, DivS2>>
  /\ chunkResults[2].elements = <<DivS2, InputS1>>
  /\ filteredElements = <<DivS1, DivS2>>

\* the model request of call req failed: an error was raised (thrown fetch
\* or non-2xx status on the last attempt), every attempt got a 429, or the
\* reply content is not JSON
RequestFailed(req) ==
  /\ Completed(req)
  /\ \/ ~GotResponse(req)
     \/ req.response.body.choices /\ req.response.body.content = NotJson
SomeRequestFailed == \E i \in DOMAIN requests : RequestFailed(requests[i])
Resolved == selPc = "resolved"
Chunked == Len(chunks) > 0

ChunkFailed(i) == RequestFailed(requests[i])
HasSelector(els, selector) == \E k \in 1..Len(els) : els[k].selector = selector

HasShape(content) ==
  \/ content.type = "array"
  \/ /\ content.type = "object"
     /\ \/ IsArray(content.elements) /\ content.filtered_dom_tree = Undefined
        \/ content.elements = Undefined /\ IsArray(content.filtered_dom_tree)
ArrayOf(content) ==
  IF content.type = "array" THEN content.items
  ELSE IF IsArray(content.elements) THEN content.elements.items
  ELSE content.filtered_dom_tree.items
ShapedReply(req) ==
  /\ GotResponse(req)
  /\ req.response.body.choices
  /\ HasShape(req.response.body.content)

\* C16: for a reply whose parsed content is a bare array A, {elements: A}
\* or {filtered_dom_tree: A}, the single-request path and the per-chunk
\* path both return exactly A.
C16_ThreeShapesNormalized ==
  /\ (Resolved /\ ~Chunked /\ apiKey # NoKey /\ ShapedReply(requests[1])) =>
       filteredElements = ArrayOf(requests[1].response.body.content)
  /\ \A i \in DOMAIN chunkResults :
       (chunkResults[i] # Pending /\ ShapedReply(requests[i])) =>
         /\ chunkResults[i].success
         /\ chunkResults[i].elements = ArrayOf(requests[i].response.body.content)

\* C16 witness: a chunk got a {filtered_dom_tree: A} reply and has settled
C16_Witness ==
  /\ Chunked
  /\ chunkResults[1] # Pending
  /\ GotResponse(requests[1])
  /\ requests[1].response.body = Message(JsonObject(Undefined, JsonArray(<<InputS1, DivS2>>)))
  /\ chunkResults[1].elements = <<InputS1, DivS2>>

\* C18: with the replies and failures of each chunk as they are, the merged
\* result is the merge of the chunk results in chunk order whatever order
\* the chunks settled in, and nothing is merged before every chunk request
\* has finished.
C18_MergeIndependentOfSettleOrder ==
  /\ (Resolved /\ Chunked) =>
       filteredElements =
         mergeFilteredElementChunks([i \in DOMAIN chunks |->
                                       selectElementsChunk(chunks[i], requests[i], i - 1)])
  /\ (Chunked /\ \E i \in DOMAIN requests : ~Completed(requests[i])) =>
       selPc = "chunked" /\ filteredElements = <<>>

\* C18 witness: the second chunk settled before the first, both handed in
\* the selector '#s1', and the descriptor of the first chunk is the one kept
C18_Witness ==
  /\ Resolved
  /\ settled = <<2, 1>>
  /\ chunkResults[1].elements = <<DivS1, DivS2>>
  /\ chunkResults[2].elements = <<InputS1>>
  /\ filteredElements = <<DivS1, DivS2>>

\* producing the patch failed: no API key, or the request failed
CreateFailed == apiKey = NoKey \/ (requests # <<>> /\ RequestFailed(requests[1]))
IsFullDocumentFallback(p) ==
  /\ p # Undefined
  /\ Len(p.operations) = 1
  /\ p.operations[1].op = "replaceFullDocument"
  /\ p.operations[1].html # EmptyString

\* C20: createHtmlPatchFromSelection never rejects; for every failure while
\* producing the patch (no API key, network error, exhausted retries,
\* non-JSON output) it resolves to a patch of a single replaceFullDocument
\* with non-empty html.
C20_NeverRejectsFallsBackToFullDocument ==
  /\ createPc # "rejected"
  /\ (createPc = "resolved" /\ CreateFailed) => IsFullDocumentFallback(createdPatch)

\* C21: createHtmlPatchFromSelection called with an empty or whitespace-only
\* oldHtml returns a patch with version '1.0' and exactly one operation, a
\* replaceFullDocument carrying the synthesized base HTML, and issues no
\* request of type 'patch'.
C21_BlankOldHtmlShortCircuits ==
  (createPc # "called" /\ IsBlank(oldHtml)) =>
    /\ createPc = "resolved"
    /\ IsFullDocumentFallback(createdPatch)
    /\ createdPatch.version = "1.0"
    /\ createdPatch.operations[1].html \in BaseHtmls(apiKey)
    /\ requests = <<>>

\* ------------------------------------------------------------ cache claims
\* a stored record with the structure the lookup expects
IsEntry(item) ==
  item.text = "json" /\ item.value # JsonNull /\ ~InvalidStructure(item.value)
\* the call went on to fetch: it is fetching, or a fetch of it has settled
WentToNetwork(i) == requests[i].pc = "fetching" \/ requests[i].log # <<>>
LookupAge == lookup.at - lookup.found.value.timestamp

\* C22: a lookup get(type, promptA) is a miss whenever the entry stored under
\* the computed key has a prompt different from promptA although the hash key
\* matches; the payload of another prompt is never returned and the request
\* goes to the network.
C22_OtherPromptIsMiss ==
  lookup.made =>
    /\ (IsEntry(lookup.found) /\ lookup.found.value.prompt # lookup.prompt) =>
          (lookup.returned = JsonNull /\ WentToNetwork(lookup.call))
    /\ Truthy(lookup.returned) =>
          (IsEntry(lookup.found) /\ lookup.found.value.prompt = lookup.prompt)

\* a fresh entry of the colliding prompt and the same type was found
C22_Witness ==
  /\ lookup.made
  /\ IsEntry(lookup.found)
  /\ lookup.found.value.prompt # lookup.prompt
  /\ lookup.found.value.type = lookup.type
  /\ ~Expired(lookup.found.value, lookup.at)
  /\ requests[lookup.call].pc = "fetching"

\* C23: a lookup of an entry older than 24 hours is a miss and deletes the
\* entry; an entry of age at most 24 hours with matching prompt and type is
\* returned as a hit and stays stored; no payload older than the TTL is ever
\* returned.
C23_ExpiredEntriesMissAndAreDeleted ==
  (lookup.made /\ IsEntry(lookup.found)) =>
    /\ LookupAge > maxAge => (lookup.returned = JsonNull /\ lookup.left = NoItem)
    /\ ( /\ LookupAge <= maxAge
         /\ lookup.found.value.prompt = lookup.prompt
         /\ lookup.found.value.type = lookup.type ) =>
          (lookup.returned = lookup.found.value.data /\ lookup.left = lookup.found)
    /\ Truthy(lookup.returned) => LookupAge <= maxAge

\* an entry of the same prompt and type, one millisecond too old, was looked up
C23_Witness ==
  /\ lookup.made
  /\ IsEntry(lookup.found)
  /\ lookup.found.value.prompt = lookup.prompt
  /\ lookup.found.value.type = lookup.type
  /\ LookupAge = maxAge + 1
  /\ lookup.left = NoItem

\* C24: a malformed stored record (not parseable as JSON, or parseable but
\* missing data, timestamp or prompt) is a miss and is removed by that same
\* lookup, so that afterwards no entry exists under that key.
C24_MalformedIsMissAndEvicted ==
  (lookup.made /\ lookup.found # NoItem /\ ~IsEntry(lookup.found)) =>
    (lookup.returned = JsonNull /\ lookup.left = NoItem)

Outcome(req) ==
  [pc |-> req.pc,
   payload |-> IF req.response = Undefined THEN Undefined ELSE req.response.body]
\* a record written by storeCacheResponse
IsWritten(item) == item.text = "json" /\ "version" \in DOMAIN item.value

\* C25: with a backend that answers deterministically per (type, prompt),
\* every makeApiRequest call ends the same way and with the same payload as
\* with the cache bypassed; a hit returns the payload the network returns for
\* that prompt and type; only responses with a successful status are stored.
C25_CacheIsTransparent ==
  /\ \A i \in DOMAIN requests :
       Completed(requests[i]) => Outcome(requests[i]) = Outcome(Bypassed(requests[i]))
  /\ (lookup.made /\ Truthy(lookup.returned)) =>
       Backend(lookup.type, lookup.prompt) = Http(200, NoHeader, lookup.returned)
  /\ \A k \in StorageKeys :
       IsWritten(localStorage[k]) =>
         LET cacheEntry == localStorage[k].value
         IN  Backend(cacheEntry.type, cacheEntry.prompt) = Http(200, NoHeader, cacheEntry.data)

\* a call was answered from the cache while another entry is stored too
C25_Witness ==
  \E i \in DOMAIN requests :
    /\ requests[i].pc = "returned"
    /\ requests[i].log = <<>>
    /\ requests[i].response # Undefined
    /\ lookup.call = i

\* ---------------------------------------------------------- message claims
\* the first element the selector matches in the iframe's document, if that
\* document can be reached
FrameMatch ==
  IF frameDocument = NoDocument \/ InvalidSelector(handled.selector) THEN NotFound
  ELSE querySelector(frameDocument, handled.selector)
TopMatch ==
  IF InvalidSelector(handled.selector) THEN NotFound
  ELSE querySelector(topDocument, handled.selector)

\* C26: for every CLICK_ELEMENT or CHANGE_ELEMENT message whose selector
\* resolves somewhere, the action is applied to exactly one element: the
\* match in the iframe's document when that document is available and the
\* selector matches there, otherwise the match in the top-level document;
\* never in both, never to the top-level match when an iframe match exists.
C26_OneTargetIframeFirst ==
  (handled.made /\ (FrameMatch # NotFound \/ TopMatch # NotFound)) =>
    /\ Cardinality(handled.applied) = 1
    /\ \A a \in handled.applied :
         /\ a.type = handled.type
         /\ a.value = handled.value
         /\ IF FrameMatch # NotFound
            THEN a.document = "iframe" /\ a.path = FrameMatch
            ELSE a.document = "top" /\ a.path = TopMatch

\* the selector matches in both documents, at different places
C26_Witness ==
  /\ handled.made
  /\ FrameMatch # NotFound
  /\ TopMatch # NotFound
  /\ FrameMatch # TopMatch
  /\ handled.type = "CHANGE_ELEMENT"

\* C27: a CLICK_ELEMENT or CHANGE_ELEMENT message whose selector resolves in
\* neither document raises no exception out of the handler, performs no click
\* and no value change, and leaves currentMode, currentIntent and
\* generatedHtml unchanged.
C27_MissingSelectorChangesNothing ==
  (handled.made /\ FrameMatch = NotFound /\ TopMatch = NotFound /\ handled.before.quiet) =>
    /\ ~handled.threw
    /\ handled.applied = {}
    /\ currentMode = handled.before.mode
    /\ currentIntent = handled.before.intent
    /\ generatedHtml = handled.before.html

\* C28: the selector carried by the CLICK_ELEMENT or CHANGE_ELEMENT message
\* of a materialized element, posted from inside the srcdoc iframe, is the
\* full selector of the descriptor the element was created from.
C28_PostedSelectorIsFullSelector ==
  posted.made =>
    posted.selector = filteredDomJson[srcdocElements[posted.element].source].selector

\* the text the chain text, value (for inputs), title, alt, label gives, and
\* the placeholder when all of them are empty
ChainText(d) ==
  LET chain == Or(TrimText(d.text),
                 Or(IF d.tag = "input" THEN TrimText(d.value) ELSE <<>>,
                    Or(TrimText(d.title), Or(TrimText(d.alt), TrimText(d.label)))))
  IN  Or(chain, IF d.tag = "a" THEN <<"[Link]">> ELSE <<"[Button]">>)

\* C29: a descriptor with tag a or button, with tag input and type button or
\* submit, or with role button is copied as a button element whose text is
\* not empty and is the first non-empty of text, value (for inputs), title,
\* alt and label, or else the placeholder [Link] for an anchor and [Button]
\* for the others.
C29_ButtonTextFollowsChain ==
  \A i \in 1..Len(duplicatedElements) :
    LET d == filteredDomJson[duplicatedElements[i].source]
    IN  (\/ d.tag \in {"a", "button"}
         \/ d.tag = "input" /\ d.type \in {"button", "submit"}
         \/ d.role = "button")
        => /\ duplicatedElements[i].tagName = "button"
           /\ TrimText(duplicatedElements[i].textContent) # <<>>
           /\ duplicatedElements[i].textContent = ChainText(d)

\* C30: the selector computeRobustSelector gives an element of a captured
\* document matches that element and no other element of the document.
C30_SelectorMatchesOnlyItsElement ==
  \A r \in resolved : r.matches = {r.path}

\* a reply whose content was parsed and has none of the three known shapes
UnshapedReply(req) ==
  /\ GotResponse(req)
  /\ req.response.body.choices
  /\ req.response.body.content # NotJson
  /\ ~HasShape(req.response.body.content)

\* C36: a parsed selection reply that is neither a bare array, {elements}
\* nor {filtered_dom_tree} is a failure: the selection resolves with the
\* pre-trimmed elements of the same DOM, not with an empty selection.
C36_UnknownShapeFallsBack ==
  (Resolved /\ ~Chunked /\ apiKey # NoKey /\ UnshapedReply(requests[1])) =>
    filteredElements = elements

\* p is a prefix of q: the node at p is the node at q or one of its ancestors
IsPrefix(p, q) == Len(p) <= Len(q) /\ SubSeq(q, 1, Len(p)) = p
\* the node at p comes before the node at q in document order
Before(p, q) ==
  /\ p # q
  /\ \/ IsPrefix(p, q)
     \/ \E k \in 1..Len(p) :
          /\ k <= Len(q)
          /\ SubSeq(p, 1, k - 1) = SubSeq(q, 1, k - 1)
          /\ p[k] < q[k]
BodyPaths == {p \in PathsOf(fullDomJson) : ElementAt(fullDomJson, p).tag = "body"}
BodyPath == CHOOSE p \in BodyPaths : \A q \in BodyPaths : p = q \/ Before(p, q)
BodyDescendants ==
  IF BodyPaths = {} THEN {}
  ELSE {p \in PathsOf(fullDomJson) : IsPrefix(BodyPath, p) /\ p # BodyPath}

\* the functional rule as the claim lists it
HasImportantText(n) ==
  /\ n.text.chars > 2
  /\ \/ n.text.keyword
     \/ n.text.chars <= 20 /\ n.text.action
     \/ n.text.chars >= 5 /\ n.text.chars <= 100 /\ ~n.text.numeric
FunctionalRule(n) ==
  /\ n.tag \notin {"style", "script", "meta", "link", "title", "head", "html", "body"}
  /\ \/ n.tag \in {"input", "textarea", "select", "button", "form"}
     \/ n.tag = "a" /\ n.href \notin {"", "#"}
     \/ n.role \in {"button", "link", "search", "navigation", "combobox", "textbox"}
     \/ n.tag \in {"h1", "h2", "h3", "h4", "h5", "h6", "label"}
     \/ n.tag = "nav"
     \/ n.tag # "" /\ HasImportantText(n)
FunctionalPaths == {p \in BodyDescendants : FunctionalRule(ElementAt(fullDomJson, p))}

Flagged(n) == n.isInteractive \/ n.isNavigationCandidate
InPath(selector) ==
  CHOOSE p \in PathsOf(fullDomJson) : ElementAt(fullDomJson, p).selector = selector
KeptSelectors ==
  IF locallyFiltered.tree = NoNode THEN {}
  ELSE {ElementAt(locallyFiltered.tree, q).selector : q \in PathsOf(locallyFiltered.tree)}
Kept(p) == ElementAt(fullDomJson, p).selector \in KeptSelectors

C40_FallbackLoadsStepOne ==
  mockCall.pc = "fetching" =>
    /\ mockCall.attempts <= 2
    /\ mockCall.attempts = 2 => mockCall.file = [purchase |-> FALSE, step |-> 1]

\* ------------------------------------------------- page generator claims
\* C38: the page-content cache holds only documents that were assembled from
\* a selection, and a call that returns a cached document returns an
\* assembled one, never an earlier fallback.
C38_CacheHoldsOnlyAssembled ==
  /\ \A k \in CacheKeys : generatorCache[k] \in {NotCached, "assembled"}
  /\ (generatorReturned # NothingReturned /\ generatorReturned.cached) =>
       generatorReturned.kind = "assembled"

\* ------------------------------------------------- window message claims
\* C37: a window message whose type is neither CLICK_ELEMENT nor
\* CHANGE_ELEMENT, or that carries no data, clicks and changes nothing,
\* schedules no refresh and raises nothing in the listener.
C37_OtherMessageHasNoEffect ==
  [][(handled' # handled /\ handled'.type \notin MessageTypes) =>
       /\ handled'.applied = {}
       /\ ~handled'.threw
       /\ refreshTimers' = refreshTimers
       /\ UNCHANGED ctlVars]_vars

\* --------------------------------------------------- polling timer claims
\* C39: at most one main-page polling timer and at most one iframe polling
\* timer run, and in normal mode with no transition in flight URL
\* synchronization is off and no polling timer runs or is held.
C39_OnePollingTimerEach ==
  /\ mainIntervals <= 1
  /\ iframeIntervals <= 1
  /\ (currentMode = "normal" /\ Transitions = {}) =>
       /\ ~urlSyncEnabled
       /\ ~urlCheckInterval
       /\ ~iframeUrlCheckInterval
       /\ mainIntervals = 0
       /\ iframeIntervals = 0

\* ------------------------------------------------------------ popup claims
\* C33: once the popup's mode requests have completed, what was persisted
\* equals the controller's state: the stored currentMode is the controller's
\* currentMode and the stored currentIntent is the controller's currentIntent.
C33_PersistedEqualsController ==
  (popupCalls = <<>> /\ retryTimers = 0) =>
    /\ localStore.currentMode # Unset => localStore.currentMode = currentMode
    /\ localStore.currentIntent # Unset => localStore.currentIntent = currentIntent

\* ---------------------------------------------------- page replacer claims
\* C34: at most one element with id __replacer_host__ is in the document and
\* the renderer was invoked at most once since the last teardown, whatever
\* the order of toggles, showSimplified calls and import completions.
C34_MountIsIdempotent ==
  /\ Cardinality(HostsInDocument) <= 1
  /\ rendererCalls <= 1

\* C35: whenever no mount is in flight, showing implies mounted, the root
\* element has data-replacer-active exactly when showing, and an overlay host
\* is displayed exactly when showing.
C35_ViewFollowsShowing ==
  mounts = {} =>
    /\ showing => mounted
    /\ replacerActive <=> showing
    /\ (\E h \in HostsInDocument : hosts[h].displayed) <=> showing


====
